---- MODULE Spec2Model ----
(***************************************************************************)
(* A model of markupever's tree core: the UNITree arena (unitree), the     *)
(* tree-sink adapters built on it, and the cached element attributes.      *)
(***************************************************************************)
EXTENDS Integers, Sequences, FiniteSets, TLC

VARIABLES
    vec,    \* UNITree.vec: position (0-based) -> Item
    pre,    \* history: every call so far met the preconditions stated for it
    last,   \* history: the last arena call and the case it met
    calls,  \* history: the number of mutator calls made so far
    budget, \* the number of mutator calls a run may make
    sink,   \* which tree sink the parser driver was given
    tree,   \* Parser.tree: the UNITree<NodeData> of dom::parser::Parser
    nodes,  \* the arcdom Node allocations reachable from TreeBuilder.root
    slast,  \* history: the last tree-sink callback and its arguments
    impl,   \* which element type holds the attributes
    elem,   \* the element's attributes and its id / classes caches
    read,   \* history: the last read of id or classes and what it returned
    namespaces, \* TreeDom.namespaces: the prefixes recorded, each with its namespace
    errors, \* the tree sink's list of parse errors
    lineno, \* the line number the tokenizer reported last
    out,    \* history: the last query on the tree and what it answered
    pc,     \* each thread's position in the function it runs
    held,   \* for each mutex the thread that holds it, or 0
    driver, \* the streaming driver: its state and what it returned last
    iter    \* PyElementDataAttributes: its len and index fields

arenaVars == <<vec, pre, last, calls, budget>>
sinkVars == <<sink, tree, nodes, slast>>
attrVars == <<impl, elem, read>>
domVars == <<namespaces, errors, lineno, out>>
runVars == <<pc, held, driver, iter>>
vars == <<arenaVars, sinkVars, attrVars, domVars, runVars>>

(***************************************************************************)
(* Bounds                                                                  *)
(***************************************************************************)
MaxNodes == 5
MaxCalls == 3
MaxDeepCalls == 4
MaxSinkNodes == 4
MaxSinkCalls == 6
MaxTextLen == 5
MaxAttrs == 2
MaxAttrList == 3
MaxDomNodes == 3
MaxDomCalls == 3
MaxErrors == 3
MaxLine == 2
MaxQueryCalls == 6
MaxEqAttrs == 2
MaxSerializeCalls == 4

(***************************************************************************)
(* unitree: Index, Item                                                    *)
(***************************************************************************)

\* Option<Index>::None. Index wraps a NonZeroUsize, so None is the niche 0.
None == 0

\* Option<(Index, Index)>::None
NoChildren == <<>>

\* Index::new(n): stores n + 1
IndexNew(n) == n + 1

\* Index::into_usize(self): the stored value minus 1
into_usize(i) == i - 1

\* Index::default(): the root index
IndexDefault == IndexNew(0)

\* Item::new(value)
ItemNew(value) ==
    [parent |-> None, prev_sibling |-> None, next_sibling |-> None,
     children |-> NoChildren, value |-> value]

first_children(item) ==
    IF item.children = NoChildren THEN None ELSE item.children[1]

last_children(item) ==
    IF item.children = NoChildren THEN None ELSE item.children[2]

\* UNITree::len
len(v) == Cardinality(DOMAIN v)

\* the indexes UNITree::get answers Some for
Indexes(v) == {IndexNew(n) : n \in DOMAIN v}

\* UNITree::get(index), unwrapped
Get(v, index) == v[into_usize(index)]

\* a store to one field of the item at index
Put(v, index, fld, val) == [v EXCEPT ![into_usize(index)][fld] = val]

\* UNITree::new(root)
UNITreeNew(root) == [n \in {0} |-> ItemNew(root)]

\* an arena that recycles a slot: the new item takes the place of the last one
orphanRecycling(v, value) ==
    [n \in 0..len(v) |-> IF n = len(v) - 1 THEN ItemNew(value)
                         ELSE IF n \in DOMAIN v THEN v[n] ELSE ItemNew(value)]

\* UNITree::orphan(value): the vector after the push
orphan(v, value) ==
    [n \in 0..len(v) |-> IF n \in DOMAIN v THEN v[n] ELSE ItemNew(value)]

\* the index UNITree::orphan returns
orphan_index(v) == IndexNew(len(v))

\* UNITree::detach_item panics: an unwrap of None
detach_item_panics(v, index) ==
    LET item == Get(v, index) IN
    /\ item.parent # None
    /\ LET parent == Get(v, item.parent) IN
       \/ parent.children = NoChildren
       \/ /\ parent.children[1] # parent.children[2]
          /\ parent.children[1] = index
          /\ item.next_sibling = None
       \/ /\ parent.children[1] # parent.children[2]
          /\ parent.children[1] # index
          /\ parent.children[2] = index
          /\ item.prev_sibling = None

\* UNITree::detach_item(index, item), item being the item at index.
\* `item` is a `&mut Item` argument; when a sibling field of the item names
\* the item itself the stores through self.vec[id] alias it, which the
\* reference rules leave undefined: item_late = TRUE is the build in which the
\* stores through `item` land after the aliasing ones.
detach_item(v, index, item_late) ==
    LET item == Get(v, index)
        parent_index == item.parent
    IN  IF parent_index = None THEN v
        ELSE
        LET prev_index == item.prev_sibling
            next_index == item.next_sibling
            clear(w) == [w EXCEPT ![into_usize(index)] =
                            [@ EXCEPT !.parent = None,
                                      !.prev_sibling = None,
                                      !.next_sibling = None]]
            v1 == clear(v)
            v2 == IF prev_index # None
                  THEN Put(v1, prev_index, "next_sibling", next_index) ELSE v1
            v3 == IF next_index # None
                  THEN Put(v2, next_index, "prev_sibling", prev_index) ELSE v2
            v4 == IF item_late THEN clear(v3) ELSE v3
            parent == Get(v4, parent_index)
            first_index == parent.children[1]
            last_index == parent.children[2]
        IN  IF first_index = last_index
            THEN Put(v4, parent_index, "children", NoChildren)
            ELSE IF first_index = index
            THEN Put(v4, parent_index, "children", <<next_index, last_index>>)
            ELSE IF last_index = index
            THEN Put(v4, parent_index, "children", <<first_index, prev_index>>)
            ELSE v4

\* UNITree::detach(index)
detach(v, index, item_late) == detach_item(v, index, item_late)

\* UNITree::append(parent_index, child_index), past its assert_ne
append(v, parent_index, child_index, item_late) ==
    LET last_child_index == last_children(Get(v, parent_index)) IN
    IF last_child_index = child_index THEN v
    ELSE
    LET v1 == detach_item(v, child_index, item_late)
        v2 == Put(v1, child_index, "parent", parent_index)
        v3 == Put(v2, child_index, "prev_sibling", last_child_index)
        v4 == IF last_child_index # None
              THEN Put(v3, last_child_index, "next_sibling", child_index) ELSE v3
        children == IF Get(v4, parent_index).children # NoChildren
                    THEN <<Get(v4, parent_index).children[1], child_index>>
                    ELSE <<child_index, child_index>>
    IN  Put(v4, parent_index, "children", children)

\* UNITree::prepend(parent_index, child_index), past its assert_ne
prepend(v, parent_index, child_index, item_late) ==
    LET first_child_index == first_children(Get(v, parent_index)) IN
    IF first_child_index = child_index THEN v
    ELSE
    LET v1 == detach_item(v, child_index, item_late)
        v2 == Put(v1, child_index, "parent", parent_index)
        v3 == Put(v2, child_index, "next_sibling", first_child_index)
        v4 == IF first_child_index # None
              THEN Put(v3, first_child_index, "prev_sibling", child_index) ELSE v3
        children == IF Get(v4, parent_index).children # NoChildren
                    THEN <<child_index, Get(v4, parent_index).children[2]>>
                    ELSE <<child_index, child_index>>
    IN  Put(v4, parent_index, "children", children)

\* UNITree::insert_before(index, x), past its assert_ne and parent.unwrap()
insert_before(v, index, x, item_late) ==
    LET parent_index == Get(v, index).parent
        prev_index == Get(v, index).prev_sibling
        v1 == detach_item(v, x, item_late)
        v2 == Put(v1, x, "parent", parent_index)
        v3 == Put(v2, x, "prev_sibling", prev_index)
        v4 == Put(v3, x, "next_sibling", index)
        v5 == IF prev_index # None
              THEN Put(v4, prev_index, "next_sibling", x) ELSE v4
        v6 == Put(v5, index, "prev_sibling", x)
        f_index == Get(v6, parent_index).children[1]
        l_index == Get(v6, parent_index).children[2]
    IN  IF f_index = index
        THEN Put(v6, parent_index, "children", <<x, l_index>>)
        ELSE v6

\* UNITree::insert_after(index, x), past its assert_ne and parent.unwrap()
insert_after(v, index, x, item_late) ==
    LET parent_index == Get(v, index).parent
        next_index == Get(v, index).next_sibling
        v1 == detach_item(v, x, item_late)
        v2 == Put(v1, x, "parent", parent_index)
        v3 == Put(v2, x, "prev_sibling", index)
        v4 == Put(v3, x, "next_sibling", next_index)
        v5 == IF next_index # None
              THEN Put(v4, next_index, "prev_sibling", x) ELSE v4
        v6 == Put(v5, index, "next_sibling", x)
        f_index == Get(v6, parent_index).children[1]
        l_index == Get(v6, parent_index).children[2]
    IN  IF l_index = index
        THEN Put(v6, parent_index, "children", <<f_index, x>>)
        ELSE v6

\* insert_before / insert_after panic after the detach: the parent's
\* children.unwrap() finds None
insert_panics(v, index, x, item_late) ==
    \/ detach_item_panics(v, x)
    \/ Get(detach_item(v, x, item_late), Get(v, index).parent).children = NoChildren

\* UNITree::reparent_append(new_parent, index), past its assert_ne
reparent_append(v, new_parent, index) ==
    IF Get(v, index).children = NoChildren THEN v
    ELSE
    LET child_ids == Get(v, index).children
        v1 == Put(v, index, "children", NoChildren)
        v2 == Put(v1, child_ids[1], "parent", new_parent)
        v3 == Put(v2, child_ids[2], "parent", new_parent)
    IN  IF Get(v3, new_parent).children = NoChildren
        THEN Put(v3, new_parent, "children", child_ids)
        ELSE
        LET old_child_ids == Get(v3, new_parent).children
            v4 == Put(v3, old_child_ids[2], "next_sibling", child_ids[1])
            v5 == Put(v4, child_ids[1], "prev_sibling", old_child_ids[2])
        IN  Put(v5, new_parent, "children", <<old_child_ids[1], child_ids[2]>>)

\* UNITree::reparent_prepend(new_parent, index), past its assert_ne
reparent_prepend(v, new_parent, index) ==
    IF Get(v, index).children = NoChildren THEN v
    ELSE
    LET child_ids == Get(v, index).children
        v1 == Put(v, index, "children", NoChildren)
        v2 == Put(v1, child_ids[1], "parent", new_parent)
        v3 == Put(v2, child_ids[2], "parent", new_parent)
    IN  IF Get(v3, new_parent).children = NoChildren
        THEN Put(v3, new_parent, "children", child_ids)
        ELSE
        LET old_child_ids == Get(v3, new_parent).children
            v4 == Put(v3, old_child_ids[2], "prev_sibling", child_ids[2])
            v5 == Put(v4, child_ids[1], "next_sibling", old_child_ids[1])
        IN  Put(v5, new_parent, "children", <<child_ids[1], old_child_ids[2]>>)

(***************************************************************************)
(* Reading the links                                                       *)
(***************************************************************************)

\* the nodes met walking from `cur` along next_sibling until `stop` is met
\* (inclusive), the links run out, or `fuel` steps were taken
RECURSIVE walk_next(_, _, _, _)
walk_next(v, cur, stop, fuel) ==
    IF cur = None \/ fuel = 0 THEN <<>>
    ELSE IF cur = stop THEN <<cur>>
    ELSE <<cur>> \o walk_next(v, Get(v, cur).next_sibling, stop, fuel - 1)

\* p's child list: from its first child along next_sibling to its last child
ChildList(v, p) ==
    IF Get(v, p).children = NoChildren THEN <<>>
    ELSE walk_next(v, Get(v, p).children[1], Get(v, p).children[2], len(v) + 1)

\* how often n occurs in the sequence s
Count(s, n) == Cardinality({k \in DOMAIN s : s[k] = n})

\* the elements of a sequence
Range(s) == {s[k] : k \in DOMAIN s}

\* the ancestors of n: its parent, its parent's parent, ... (at most fuel of them)
RECURSIVE Ancestors(_, _, _)
Ancestors(v, n, fuel) ==
    IF fuel = 0 \/ Get(v, n).parent = None THEN {}
    ELSE {Get(v, n).parent} \cup Ancestors(v, Get(v, n).parent, fuel - 1)

\* only the links of the items, without their values
Links(v) ==
    [n \in DOMAIN v |->
        [parent |-> v[n].parent, prev_sibling |-> v[n].prev_sibling,
         next_sibling |-> v[n].next_sibling, children |-> v[n].children]]

\* the arena is a forest: what every mutator is meant to keep
WellFormed(v) ==
    \A i \in Indexes(v) :
        LET it == Get(v, i) IN
        /\ i \notin Ancestors(v, i, len(v))
        /\ it.parent # None =>
              /\ Count(ChildList(v, it.parent), i) = 1
        /\ it.parent = None => it.prev_sibling = None /\ it.next_sibling = None
        /\ it.prev_sibling # None =>
              /\ Get(v, it.prev_sibling).next_sibling = i
              /\ Get(v, it.prev_sibling).parent = it.parent
        /\ it.next_sibling # None =>
              /\ Get(v, it.next_sibling).prev_sibling = i
              /\ Get(v, it.next_sibling).parent = it.parent
        /\ it.children # NoChildren =>
              /\ Get(v, it.children[1]).prev_sibling = None
              /\ Get(v, it.children[2]).next_sibling = None
              /\ \A k \in Range(ChildList(v, i)) : Get(v, k).parent = i
              /\ ChildList(v, i)[Len(ChildList(v, i))] = it.children[2]

(***************************************************************************)
(* Node data                                                               *)
(***************************************************************************)

\* NodeData::Document
DocumentData == [kind |-> "Document", contents |-> ""]

\* NodeData::Element (its attributes are modelled apart, below)
ElementNodeData == [kind |-> "Element", contents |-> ""]

\* NodeData::Comment
CommentData(contents) == [kind |-> "Comment", contents |-> contents]

\* NodeData::Text: Text::from_non_atomic(text), TextData::new(text)
TextData(contents) == [kind |-> "Text", contents |-> contents]

\* NodeData::Doctype of the given name
DoctypeData(name) == [kind |-> "Doctype", contents |-> name]

\* Text::push_non_atomic and Tendril::push_tendril: the bytes are appended
push_tendril(data, text) == [data EXCEPT !.contents = @ \o text]

\* NodeData::text_mut / Node::as_text answer Some
is_text(data) == data.kind = "Text"

(***************************************************************************)
(* dom::parser::Parser, the tree sink on the arena                         *)
(***************************************************************************)

\* Parser::new: the tree holds the Document as root
ParserNew == UNITreeNew(DocumentData)

\* Parser::create_element / create_comment: an orphan holding the data
ParserCreate(t, data) == orphan(t, data)

\* Parser::append(parent, AppendNode(handle))
ParserAppendNode(t, parent, handle) == append(t, parent, handle, FALSE)

\* the append that never looks at the last child: every run gets a node
ParserAppendTextAlwaysNew(t, parent, text) ==
    append(orphan(t, TextData(text)), parent, orphan_index(t), FALSE)

\* Parser::append(parent, AppendText(text))
ParserAppendText(t, parent, text) ==
    LET last_index == last_children(Get(t, parent)) IN
    IF last_index # None /\ is_text(Get(t, last_index).value)
    THEN Put(t, last_index, "value", push_tendril(Get(t, last_index).value, text))
    ELSE LET text_index == orphan_index(t)
         IN  append(orphan(t, TextData(text)), parent, text_index, FALSE)

\* Parser::remove_from_parent(target)
ParserRemoveFromParent(t, target) == detach(t, target, FALSE)

\* Parser::append_before_sibling(sibling, AppendNode(item_index))
ParserAppendBeforeSiblingNode(t, sibling, item_index, item_late) ==
    insert_before(t, sibling, item_index, item_late)

\* Parser::append_before_sibling(sibling, AppendText(text))
ParserAppendBeforeSiblingText(t, sibling, text) ==
    LET prev_index == Get(t, sibling).prev_sibling IN
    IF prev_index # None /\ is_text(Get(t, prev_index).value)
    THEN Put(t, prev_index, "value", push_tendril(Get(t, prev_index).value, text))
    ELSE LET text_index == orphan_index(t)
         IN  insert_before(orphan(t, TextData(text)), sibling, text_index, FALSE)

\* Parser::reparent_children(node, new_parent)
ParserReparentChildren(t, node, new_parent) == reparent_append(t, new_parent, node)

\* the data of p's children, in order
ParserKids(t, p) ==
    [k \in 1..Len(ChildList(t, p)) |-> Get(t, ChildList(t, p)[k]).value]

(***************************************************************************)
(* core::arcdom: Node, Children, and TreeBuilder, the tree sink on them    *)
(***************************************************************************)

\* Node::new(data): one more allocation, without parent and children.
\* A Node is named by the order of its allocation; no parent is 0.
NodeNew(h, data) ==
    Append(h, [data |-> data, parent |-> None, children |-> <<>>])

\* TreeBuilder::new: the root is a Document node
TreeBuilderNew == NodeNew(<<>>, DocumentData)

\* Children::position
position(h, node, child) ==
    CHOOSE k \in DOMAIN h[node].children : h[node].children[k] = child

\* Children::append on node.children(): Err and no change for the node itself
ChildrenAppend(h, node, child) ==
    IF node = child THEN h
    ELSE [h EXCEPT ![child].parent = node,
                   ![node].children = Append(@, child)]

\* Node::unlink
unlink(h, node) ==
    IF h[node].parent = None THEN h
    ELSE LET parent == h[node].parent
             k == position(h, parent, node)
             c == h[parent].children
         IN  [h EXCEPT ![node].parent = None,
                       ![parent].children =
                           SubSeq(c, 1, k - 1) \o SubSeq(c, k + 1, Len(c))]

\* TreeBuilder::append(parent, AppendNode(handle))
TreeBuilderAppendNode(h, parent, handle) == ChildrenAppend(h, parent, handle)

\* TreeBuilder::append(parent, AppendText(text))
TreeBuilderAppendText(h, parent, text) ==
    LET c == h[parent].children IN
    IF c # <<>> /\ is_text(h[c[Len(c)]].data)
    THEN [h EXCEPT ![c[Len(c)]].data = push_tendril(@, text)]
    ELSE ChildrenAppend(NodeNew(h, TextData(text)), parent, Len(h) + 1)

\* TreeBuilder::remove_from_parent(target)
TreeBuilderRemoveFromParent(h, target) == unlink(h, target)

\* Children::insert on node.children(): Err and no change for the node itself
ChildrenInsert(h, node, index, child) ==
    IF node = child THEN h
    ELSE LET c == h[node].children
         IN  [h EXCEPT ![child].parent = node,
                       ![node].children =
                           SubSeq(c, 1, index) \o <<child>> \o SubSeq(c, index + 1, Len(c))]

\* TreeBuilder::append_before_sibling(sibling, AppendNode(node)) where it
\* returns; index is the 0-based position of sibling, taken before the unlink
TreeBuilderAppendBeforeSiblingNode(h, sibling, node) ==
    LET parent == h[sibling].parent
        index == position(h, parent, sibling) - 1
    IN  ChildrenInsert(unlink(h, node), parent, index, node)

\* TreeBuilder::append_before_sibling(sibling, AppendText(text)) where it
\* returns: sibling is the first child
TreeBuilderAppendBeforeSiblingText(h, sibling, text) ==
    ChildrenInsert(NodeNew(h, TextData(text)), h[sibling].parent, 0, Len(h) + 1)

\* TreeBuilder::append_before_sibling never returns: it locks the children
\* of sibling's parent a second time while it holds them. With a node, the
\* second lock is in node.unlink(), taken when the parent is node's too; with
\* text, it is taken whenever sibling is not the first child.
append_before_sibling_deadlocks(h, sibling, node, is_node) ==
    IF is_node THEN h[node].parent = h[sibling].parent
    ELSE position(h, h[sibling].parent, sibling) # 1

\* the loop of TreeBuilder::reparent_children over the drained children
RECURSIVE reparent_each(_, _, _)
reparent_each(h, new_parent, drained) ==
    IF drained = <<>> THEN h
    ELSE LET child == Head(drained)
             h1 == [h EXCEPT ![child].parent = None]
         IN  reparent_each(ChildrenAppend(h1, new_parent, child), new_parent,
                           Tail(drained))

\* TreeBuilder::reparent_children(node, new_parent), for node # new_parent
\* (for node = new_parent the second children lock never returns)
TreeBuilderReparentChildren(h, node, new_parent) ==
    reparent_each([h EXCEPT ![node].children = <<>>], new_parent, h[node].children)

\* the data of p's children, in order
TreeBuilderKids(h, p) ==
    [k \in 1..Len(h[p].children) |-> h[h[p].children[k]].data]

\* the nodes above n (a Weak parent chain), at most fuel of them
RECURSIVE parents(_, _, _)
parents(h, n, fuel) ==
    IF fuel = 0 \/ h[n].parent = None THEN {}
    ELSE {h[n].parent} \cup parents(h, h[n].parent, fuel - 1)

\* the nodes where TreeBuilder::append_before_sibling stops for ever: a node
\* under sibling's parent has lost its parent field in node.unlink() before
\* the second lock; with text nothing was done yet
TreeBuilderAppendBeforeSiblingStuck(h, node, is_node) ==
    IF is_node THEN [h EXCEPT ![node].parent = None] ELSE h

(***************************************************************************)
(* core::arcdom: ChildrenMutexGuard and ArcDom, the tree sink on it        *)
(***************************************************************************)

\* ChildrenMutexGuard::push and ::insert answer Err: the child is the node
\* itself or has a parent
ChildrenMutexGuardErrs(h, root, val) == root = val \/ h[val].parent # None

\* ChildrenMutexGuard::push where it answers Ok
ChildrenMutexGuardPush(h, root, val) ==
    [h EXCEPT ![val].parent = root, ![root].children = Append(@, val)]

\* ChildrenMutexGuard::insert where it answers Ok; index counts from 0
ChildrenMutexGuardInsert(h, root, index, val) ==
    LET c == h[root].children
    IN  [h EXCEPT ![val].parent = root,
                  ![root].children =
                      SubSeq(c, 1, index) \o <<val>> \o SubSeq(c, index + 1, Len(c))]

\* ArcDom::new(root): the root is a Document node
ArcDomNew == NodeNew(<<>>, DocumentData)

\* ArcDom::append(parent, AppendNode(handle)), past the unwrap of push
ArcDomAppendNode(h, parent, handle) == ChildrenMutexGuardPush(h, parent, handle)

\* ArcDom::append(parent, AppendText(text))
ArcDomAppendText(h, parent, text) ==
    LET c == h[parent].children IN
    IF c # <<>> /\ is_text(h[c[Len(c)]].data)
    THEN [h EXCEPT ![c[Len(c)]].data = push_tendril(@, text)]
    ELSE ChildrenMutexGuardPush(NodeNew(h, TextData(text)), parent, Len(h) + 1)

\* the node leaves its parent and its parent's children, as in
\* `if let Some(oldparent) = node.parent().take() { ... }` up to the call of
\* ChildrenMutexGuard::remove, and in that call up to self.item.remove(index)
TakenFromParent(h, node) ==
    LET oldparent == h[node].parent
        k == position(h, oldparent, node)
        c == h[oldparent].children
    IN  [h EXCEPT ![node].parent = None,
                  ![oldparent].children =
                      SubSeq(c, 1, k - 1) \o SubSeq(c, k + 1, Len(c))]

\* ArcDom::remove_from_parent(target) does not return when target has a
\* parent: the guard of target.parent() lives to the end of the `if let`,
\* and ChildrenMutexGuard::remove inside it locks target.parent() again (and
\* would unwrap the parent that was already taken)
remove_from_parent_stops(h, target) == h[target].parent # None

\* ArcDom::remove_from_parent(target): the nodes when it returns, or when it
\* stops
ArcDomRemoveFromParent(h, target) ==
    IF h[target].parent = None THEN h ELSE TakenFromParent(h, target)

\* ArcDom::append_before_sibling does not return: with text it locks the
\* children of sibling's parent a second time whenever sibling is not the
\* first child; with a node that has a parent it locks those children a
\* second time (the parent is sibling's) or stops in
\* ChildrenMutexGuard::remove as remove_from_parent does
ArcDom_append_before_sibling_stops(h, sibling, node, is_node) ==
    IF is_node THEN h[node].parent # None
    ELSE position(h, h[sibling].parent, sibling) # 1

\* ArcDom::append_before_sibling(sibling, AppendNode(node)): the nodes when
\* it returns, or when it stops
ArcDomAppendBeforeSiblingNode(h, sibling, node) ==
    LET parent == h[sibling].parent
        index == position(h, parent, sibling) - 1
    IN  IF h[node].parent = None
        THEN ChildrenMutexGuardInsert(h, parent, index, node)
        ELSE IF h[node].parent = parent
        THEN [h EXCEPT ![node].parent = None]
        ELSE TakenFromParent(h, node)

\* ArcDom::append_before_sibling(sibling, AppendText(text)): the nodes when
\* it returns (sibling is the first child), or when it stops
ArcDomAppendBeforeSiblingText(h, sibling, text) ==
    IF position(h, h[sibling].parent, sibling) = 1
    THEN ChildrenMutexGuardInsert(NodeNew(h, TextData(text)), h[sibling].parent,
                                  0, Len(h) + 1)
    ELSE h

\* the loop of ArcDom::reparent_children over the drained children
RECURSIVE push_each(_, _, _)
push_each(h, new_parent, drained) ==
    IF drained = <<>> THEN h
    ELSE LET child == Head(drained)
             h1 == [h EXCEPT ![child].parent = None]
         IN  push_each(ChildrenMutexGuardPush(h1, new_parent, child), new_parent,
                       Tail(drained))

\* ArcDom::reparent_children(node, new_parent), for node # new_parent
ArcDomReparentChildren(h, node, new_parent) ==
    push_each([h EXCEPT ![node].children = <<>>], new_parent, h[node].children)

(***************************************************************************)
(* Element attributes and their caches                                     *)
(***************************************************************************)

\* an attribute is <<local name, value>>; Option<T> is <<>> or <<v>>
NoneOption == <<>>
Some(v) == <<v>>

\* send::OnceLock: new, get_or_init, take. An unset lock is <<>>, a set one <<v>>.
OnceLockNew == <<>>
get_or_init(lock, v) == IF lock = OnceLockNew THEN <<v>> ELSE lock
take(lock) == OnceLockNew

\* the closure of id(): the value of the first attribute named "id"
find_id(attrs) ==
    IF \E k \in DOMAIN attrs : attrs[k][1] = "id"
    THEN LET k == CHOOSE j \in DOMAIN attrs :
                      /\ attrs[j][1] = "id"
                      /\ \A i \in 1..(j - 1) : attrs[i][1] # "id"
         IN  Some(attrs[k][2])
    ELSE NoneOption

\* str::split_ascii_whitespace from position k on, cur being the token so far
RECURSIVE split_from(_, _, _)
split_from(s, k, cur) ==
    IF k > Len(s) THEN (IF cur = "" THEN <<>> ELSE <<cur>>)
    ELSE IF SubSeq(s, k, k) = " "
    THEN (IF cur = "" THEN <<>> ELSE <<cur>>) \o split_from(s, k + 1, "")
    ELSE split_from(s, k + 1, cur \o SubSeq(s, k, k))

split_ascii_whitespace(s) == split_from(s, 1, "")

\* filter(name.local == "class").flat_map(split_ascii_whitespace)
RECURSIVE class_tokens(_)
class_tokens(attrs) ==
    IF attrs = <<>> THEN <<>>
    ELSE (IF Head(attrs)[1] = "class"
          THEN split_ascii_whitespace(Head(attrs)[2]) ELSE <<>>)
         \o class_tokens(Tail(attrs))

\* the order of LocalName: the order of the strings, byte by byte
Alphabet == "abcdefghijklmnopqrstuvwxyz"
CharRank(c) == CHOOSE k \in 1..Len(Alphabet) : SubSeq(Alphabet, k, k) = c
RECURSIVE StrLess(_, _)
StrLess(a, b) ==
    IF b = "" THEN FALSE
    ELSE IF a = "" THEN TRUE
    ELSE LET ca == CharRank(SubSeq(a, 1, 1))
             cb == CharRank(SubSeq(b, 1, 1))
         IN  IF ca # cb THEN ca < cb
             ELSE StrLess(SubSeq(a, 2, Len(a)), SubSeq(b, 2, Len(b)))

\* slice::sort_unstable
RECURSIVE sort_unstable(_)
sort_unstable(seq) ==
    IF seq = <<>> THEN <<>>
    ELSE LET rest == sort_unstable(Tail(seq))
             x == Head(seq)
             below == SelectSeq(rest, LAMBDA e : StrLess(e, x))
             above == SelectSeq(rest, LAMBDA e : ~StrLess(e, x))
         IN  below \o <<x>> \o above

\* Vec::dedup: of each run of equal neighbours the first stays
RECURSIVE dedup(_)
dedup(seq) ==
    IF Len(seq) < 2 THEN seq
    ELSE IF seq[1] = seq[2] THEN dedup(Tail(seq))
    ELSE <<seq[1]>> \o dedup(Tail(seq))

\* the closure of classes()
find_classes(attrs) == dedup(sort_unstable(class_tokens(attrs)))

\* treedom ElementAttributeTrigger::new, arcdom ElementData::new
ElementDataNew(attrs) ==
    [attrs |-> attrs, id |-> OnceLockNew, classes |-> OnceLockNew]

\* id(&self): the element afterwards; what it returns is its id lock's value
id(e) == [e EXCEPT !.id = get_or_init(@, find_id(e.attrs))]

\* classes(&self): the element afterwards
classes(e) == [e EXCEPT !.classes = get_or_init(@, find_classes(e.attrs))]

\* ElementAttributeTrigger::deref_mut: both caches are taken
deref_mut(e) == [e EXCEPT !.id = take(@), !.classes = take(@)]

\* ElementData::clear_id, ElementData::clear_classes
clear_id(e) == [e EXCEPT !.id = take(@)]
clear_classes(e) == [e EXCEPT !.classes = take(@)]

\* Vec::push on the attributes through the trigger
\* (PyElementDataAttributes::append: elem.attrs.push)
TriggerPush(e, attr) == [deref_mut(e) EXCEPT !.attrs = Append(@, attr)]

\* Vec::pop on the attributes through the trigger
TriggerPop(e) ==
    [deref_mut(e) EXCEPT !.attrs = SubSeq(@, 1, Len(@) - 1)]

\* Vec::clear on the attributes through the trigger
TriggerClear(e) == [deref_mut(e) EXCEPT !.attrs = <<>>]

\* a push on arcdom ElementData's public attrs field
DataPush(e, attr) == [e EXCEPT !.attrs = Append(@, attr)]

\* Vec::clear on arcdom ElementData's public attrs field
DataClear(e) == [e EXCEPT !.attrs = <<>>]

\* TreeBuilder::add_attrs_if_missing: elem.attrs.extend(attrs)
add_attrs_if_missing(e, attrs) == [e EXCEPT !.attrs = @ \o attrs]

\* slice::sort_unstable_by(|a, b| a.0.cmp(&b.0)): the attributes in the order
\* of their names. Slices of fewer than 20 elements are sorted by insertion,
\* which leaves attributes of one name in the order they had.
RECURSIVE sort_unstable_by_name(_)
sort_unstable_by_name(attrs) ==
    IF attrs = <<>> THEN <<>>
    ELSE LET init == sort_unstable_by_name(SubSeq(attrs, 1, Len(attrs) - 1))
             x == attrs[Len(attrs)]
             upto == SelectSeq(init, LAMBDA e : ~StrLess(x[1], e[1]))
             above == SelectSeq(init, LAMBDA e : StrLess(x[1], e[1]))
         IN  upto \o <<x>> \o above

\* Parser::create_element: Element::from_non_atomic, then the attributes are
\* sorted by name and Vec::dedup drops an attribute equal, in name and value,
\* to the one before it
ParserCreateElement(attrs) ==
    ElementDataNew(dedup(sort_unstable_by_name(attrs)))

\* TreeBuilder::create_element: ElementData::new on the attributes as given
TreeBuilderCreateElement(attrs) == ElementDataNew(attrs)

\* ArcDom::create_element: ElementData::from_non_atomic, sort, dedup
ArcDomCreateElement(attrs) ==
    ElementDataNew(dedup(sort_unstable_by_name(attrs)))

\* Parser::add_attrs_if_missing: extend, sort by name, dedup
ParserAddAttrsIfMissing(e, attrs) ==
    [deref_mut(e) EXCEPT !.attrs = dedup(sort_unstable_by_name(@ \o attrs))]

\* ArcDom::add_attrs_if_missing: extend, sort by name, dedup
ArcDomAddAttrsIfMissing(e, attrs) ==
    [e EXCEPT !.attrs = dedup(sort_unstable_by_name(@ \o attrs))]

\* Vec::insert(index, attr), Vec::remove(index), Vec::swap_remove(index) and
\* slice::reverse, index counted from 0 and within the bounds the callers check
VecInsert(attrs, index, attr) ==
    SubSeq(attrs, 1, index) \o <<attr>> \o SubSeq(attrs, index + 1, Len(attrs))

VecRemove(attrs, index) ==
    SubSeq(attrs, 1, index) \o SubSeq(attrs, index + 2, Len(attrs))

VecSwapRemove(attrs, index) ==
    IF index = Len(attrs) - 1 THEN SubSeq(attrs, 1, index)
    ELSE SubSeq([attrs EXCEPT ![index + 1] = attrs[Len(attrs)]],
                1, Len(attrs) - 1)

VecReverse(attrs) == [k \in 1..Len(attrs) |-> attrs[Len(attrs) + 1 - k]]

(***************************************************************************)
(* The arena's calls                                                       *)
(***************************************************************************)

Call(op, info) == [op |-> op, info |-> info]

\* where x stands relative to index before an insert_before / insert_after
Position(v, index, x) ==
    IF Get(v, x).parent = None THEN "orphan"
    ELSE IF Get(v, x).parent # Get(v, index).parent THEN "other_parent"
    ELSE IF Get(v, index).prev_sibling = x THEN "adjacent_before"
    ELSE IF Get(v, index).next_sibling = x THEN "adjacent_after"
    ELSE IF x \in Range(walk_next(v, Get(v, index).next_sibling, None, len(v)))
    THEN "after"
    ELSE "before"

\* what a reparent call moves: how many children, and whether the new
\* parent already has some
Moved(v, new_parent, index) ==
    <<Len(ChildList(v, index)), Get(v, new_parent).children # NoChildren>>

\* one more mutator call, within the run's budget
Counted ==
    /\ calls < budget
    /\ calls' = calls + 1
    /\ UNCHANGED <<budget, sinkVars, attrVars, runVars, domVars>>

\* one of the budget of tree-sink callbacks is spent
SinkCounted ==
    /\ slast.returned
    /\ calls < budget
    /\ calls' = calls + 1
    /\ UNCHANGED <<vec, pre, last, budget, attrVars, runVars, domVars>>

\* a tree-sink callback that returned, and its arguments
SinkCall(op, parent, text) ==
    [op |-> op, parent |-> parent, text |-> text, sibling |-> None,
     node |-> None, returned |-> TRUE]

\* a tree-sink callback on a sibling or a target, its arguments, and whether
\* it returned
SinkCallOn(op, sibling, node, text, returned) ==
    [op |-> op, parent |-> None, text |-> text, sibling |-> sibling,
     node |-> node, returned |-> returned]

\* a read of id or classes and what it returned
Read(what, result) == [what |-> what, result |-> result]

\* the arena as UNITree::new leaves it, with a budget of mutator calls
ArenaNew(n) ==
    /\ vec = UNITreeNew("v")
    /\ pre = TRUE
    /\ last = Call("new", "")
    /\ calls = 0
    /\ budget = n

\* no parser is driven
NoSink ==
    /\ sink = "none"
    /\ tree = ParserNew
    /\ nodes = TreeBuilderNew
    /\ slast = SinkCall("new", None, "")

\* no element is looked at
NoElement ==
    /\ impl = "none"
    /\ elem = ElementDataNew(<<>>)
    /\ read = Read("none", NoneOption)

\* no TreeDom is edited, no parse error is reported and no query is made
NoDom ==
    /\ namespaces = {}
    /\ errors = <<>>
    /\ lineno = 0
    /\ out = Read("none", NoneOption)

\* no thread runs, no driver is fed and no attribute list is iterated
NoRun ==
    /\ pc = <<>>
    /\ held = <<>>
    /\ driver = [state |-> "none"]
    /\ iter = [len |-> 0, index |-> 0]

Init == ArenaNew(MaxCalls) /\ NoSink /\ NoElement /\ NoDom /\ NoRun

\* the same program, run for one call more
InitDeep == ArenaNew(MaxDeepCalls) /\ NoSink /\ NoElement /\ NoDom /\ NoRun

CallOrphan ==
    /\ len(vec) < MaxNodes
    /\ vec' = orphan(vec, "v")
    /\ last' = Call("orphan", "")
    /\ UNCHANGED <<pre, calls, budget, sinkVars, attrVars, runVars, domVars>>

CallDetach ==
    /\ Counted
    /\ \E index \in Indexes(vec), item_late \in BOOLEAN :
        /\ ~detach_item_panics(vec, index)
        /\ vec' = detach(vec, index, item_late)
        /\ last' = Call("detach",
                        IF Get(vec, index).parent = None THEN "orphan" ELSE "attached")
        /\ UNCHANGED pre

CallAppend ==
    /\ Counted
    /\ \E parent_index \in Indexes(vec), child_index \in Indexes(vec),
          item_late \in BOOLEAN :
        /\ parent_index # child_index
        /\ last_children(Get(vec, parent_index)) # child_index
              => ~detach_item_panics(vec, child_index)
        /\ vec' = append(vec, parent_index, child_index, item_late)
        /\ pre' = (pre /\ Get(vec, child_index).parent \in {None, parent_index})
        /\ last' = Call("append",
                        IF Get(vec, child_index).parent = None THEN "orphan"
                        ELSE IF Get(vec, child_index).parent = parent_index
                        THEN "same_parent" ELSE "other_parent")

CallPrepend ==
    /\ Counted
    /\ \E parent_index \in Indexes(vec), child_index \in Indexes(vec),
          item_late \in BOOLEAN :
        /\ parent_index # child_index
        /\ first_children(Get(vec, parent_index)) # child_index
              => ~detach_item_panics(vec, child_index)
        /\ vec' = prepend(vec, parent_index, child_index, item_late)
        /\ pre' = (pre /\ Get(vec, child_index).parent \in {None, parent_index})
        /\ last' = Call("prepend",
                        IF Get(vec, child_index).parent = None THEN "orphan"
                        ELSE IF Get(vec, child_index).parent = parent_index
                        THEN "same_parent" ELSE "other_parent")

CallInsertBefore ==
    /\ Counted
    /\ \E index \in Indexes(vec), x \in Indexes(vec), item_late \in BOOLEAN :
        /\ index # x
        /\ Get(vec, index).parent # None
        /\ ~insert_panics(vec, index, x, item_late)
        /\ vec' = insert_before(vec, index, x, item_late)
        /\ last' = Call("insert_before", Position(vec, index, x))
        /\ UNCHANGED pre

CallInsertAfter ==
    /\ Counted
    /\ \E index \in Indexes(vec), x \in Indexes(vec), item_late \in BOOLEAN :
        /\ index # x
        /\ Get(vec, index).parent # None
        /\ ~insert_panics(vec, index, x, item_late)
        /\ vec' = insert_after(vec, index, x, item_late)
        /\ last' = Call("insert_after", Position(vec, index, x))
        /\ UNCHANGED pre

CallReparentAppend ==
    /\ Counted
    /\ \E new_parent \in Indexes(vec), index \in Indexes(vec) :
        /\ new_parent # index
        /\ vec' = reparent_append(vec, new_parent, index)
        /\ last' = Call("reparent_append", Moved(vec, new_parent, index))
        /\ UNCHANGED pre

CallReparentPrepend ==
    /\ Counted
    /\ \E new_parent \in Indexes(vec), index \in Indexes(vec) :
        /\ new_parent # index
        /\ vec' = reparent_prepend(vec, new_parent, index)
        /\ last' = Call("reparent_prepend", Moved(vec, new_parent, index))
        /\ UNCHANGED pre

Next ==
    \/ CallOrphan
    \/ CallDetach
    \/ CallAppend
    \/ CallPrepend
    \/ CallInsertBefore
    \/ CallInsertAfter
    \/ CallReparentAppend
    \/ CallReparentPrepend

Spec == Init /\ [][Next]_vars

SpecDeep == InitDeep /\ [][Next]_vars

(***************************************************************************)
(* The tree sinks' callbacks                                               *)
(***************************************************************************)

\* the character runs the tokenizer hands over
Runs == {"Hel", "lo"}

\* the nodes text and nodes are appended to: the document and elements
ParserParents ==
    {p \in Indexes(tree) : Get(tree, p).value.kind \in {"Document", "Element"}}

TreeBuilderParents ==
    {p \in DOMAIN nodes : nodes[p].data.kind \in {"Document", "Element"}}

\* the run stays within the bounds
ParserBounded(t) ==
    /\ len(t) <= MaxSinkNodes
    /\ \A i \in Indexes(t) : Len(Get(t, i).value.contents) <= MaxTextLen

TreeBuilderBounded(h) ==
    /\ Len(h) <= MaxSinkNodes
    /\ \A n \in DOMAIN h : Len(h[n].data.contents) <= MaxTextLen

InitSink ==
    /\ ArenaNew(MaxSinkCalls)
    /\ sink \in {"Parser", "TreeBuilder", "ArcDom"}
    /\ tree = ParserNew
    /\ nodes = IF sink = "ArcDom" THEN ArcDomNew ELSE TreeBuilderNew
    /\ slast = SinkCall("new", None, "")
    /\ NoElement
    /\ NoDom
    /\ NoRun

Parser_create_element ==
    /\ sink = "Parser"
    /\ SinkCounted
    /\ tree' = ParserCreate(tree, ElementNodeData)
    /\ ParserBounded(tree')
    /\ slast' = SinkCall("create_element", None, "")
    /\ UNCHANGED <<sink, nodes>>

Parser_create_comment ==
    /\ sink = "Parser"
    /\ SinkCounted
    /\ tree' = ParserCreate(tree, CommentData("c"))
    /\ ParserBounded(tree')
    /\ slast' = SinkCall("create_comment", None, "")
    /\ UNCHANGED <<sink, nodes>>

\* the tree builder appends a node that has no parent
Parser_append_node ==
    /\ sink = "Parser"
    /\ SinkCounted
    /\ \E parent \in ParserParents, handle \in Indexes(tree) :
        /\ handle # parent
        /\ handle # IndexDefault
        /\ Get(tree, handle).parent = None
        /\ handle \notin Ancestors(tree, parent, len(tree))
        /\ tree' = ParserAppendNode(tree, parent, handle)
        /\ slast' = SinkCall("append_node", parent, "")
    /\ UNCHANGED <<sink, nodes>>

Parser_append_text ==
    /\ sink = "Parser"
    /\ SinkCounted
    /\ \E parent \in ParserParents, text \in Runs :
        /\ tree' = ParserAppendText(tree, parent, text)
        /\ ParserBounded(tree')
        /\ slast' = SinkCall("append_text", parent, text)
    /\ UNCHANGED <<sink, nodes>>

\* the node put before sibling may have a parent; sibling is no Text node
Parser_append_before_sibling_node ==
    /\ sink = "Parser"
    /\ SinkCounted
    /\ \E sibling \in Indexes(tree), item_index \in Indexes(tree),
          item_late \in BOOLEAN :
        /\ sibling # item_index
        /\ item_index # IndexDefault
        /\ Get(tree, sibling).parent # None
        /\ ~is_text(Get(tree, sibling).value)
        /\ item_index \notin Ancestors(tree, sibling, len(tree))
        /\ ~insert_panics(tree, sibling, item_index, item_late)
        /\ tree' = ParserAppendBeforeSiblingNode(tree, sibling, item_index, item_late)
        /\ slast' = SinkCallOn("append_before_sibling_node", sibling, item_index,
                               "", TRUE)
    /\ UNCHANGED <<sink, nodes>>

Parser_append_before_sibling_text ==
    /\ sink = "Parser"
    /\ SinkCounted
    /\ \E sibling \in Indexes(tree), text \in Runs :
        /\ Get(tree, sibling).parent # None
        /\ ~is_text(Get(tree, sibling).value)
        /\ LET prev_index == Get(tree, sibling).prev_sibling
           IN  \/ prev_index # None /\ is_text(Get(tree, prev_index).value)
               \/ ~insert_panics(orphan(tree, TextData(text)), sibling,
                                 orphan_index(tree), FALSE)
        /\ tree' = ParserAppendBeforeSiblingText(tree, sibling, text)
        /\ ParserBounded(tree')
        /\ slast' = SinkCallOn("append_before_sibling_text", sibling, None,
                               text, TRUE)
    /\ UNCHANGED <<sink, nodes>>

\* the children go to a new parent outside node's subtree
Parser_reparent_children ==
    /\ sink = "Parser"
    /\ SinkCounted
    /\ \E node \in ParserParents, new_parent \in ParserParents :
        /\ node # new_parent
        /\ node \notin Ancestors(tree, new_parent, len(tree))
        /\ tree' = ParserReparentChildren(tree, node, new_parent)
        /\ slast' = SinkCall("reparent_children", None, "")
    /\ UNCHANGED <<sink, nodes>>

Parser_remove_from_parent ==
    /\ sink = "Parser"
    /\ SinkCounted
    /\ \E target \in Indexes(tree) :
        /\ ~detach_item_panics(tree, target)
        /\ tree' = ParserRemoveFromParent(tree, target)
        /\ slast' = SinkCallOn("remove_from_parent", None, target, "", TRUE)
    /\ UNCHANGED <<sink, nodes>>

TreeBuilder_create_element ==
    /\ sink = "TreeBuilder"
    /\ SinkCounted
    /\ nodes' = NodeNew(nodes, ElementNodeData)
    /\ TreeBuilderBounded(nodes')
    /\ slast' = SinkCall("create_element", None, "")
    /\ UNCHANGED <<sink, tree>>

TreeBuilder_create_comment ==
    /\ sink = "TreeBuilder"
    /\ SinkCounted
    /\ nodes' = NodeNew(nodes, CommentData("c"))
    /\ TreeBuilderBounded(nodes')
    /\ slast' = SinkCall("create_comment", None, "")
    /\ UNCHANGED <<sink, tree>>

\* the tree builder appends a node that has no parent
TreeBuilder_append_node ==
    /\ sink = "TreeBuilder"
    /\ SinkCounted
    /\ \E parent \in TreeBuilderParents, handle \in DOMAIN nodes :
        /\ handle # parent
        /\ handle # 1
        /\ nodes[handle].parent = None
        /\ handle \notin parents(nodes, parent, Len(nodes))
        /\ nodes' = TreeBuilderAppendNode(nodes, parent, handle)
        /\ slast' = SinkCall("append_node", parent, "")
    /\ UNCHANGED <<sink, tree>>

TreeBuilder_append_text ==
    /\ sink = "TreeBuilder"
    /\ SinkCounted
    /\ \E parent \in TreeBuilderParents, text \in Runs :
        /\ nodes' = TreeBuilderAppendText(nodes, parent, text)
        /\ TreeBuilderBounded(nodes')
        /\ slast' = SinkCall("append_text", parent, text)
    /\ UNCHANGED <<sink, tree>>

\* the node put before sibling may have a parent; sibling is no Text node
TreeBuilder_append_before_sibling_node ==
    /\ sink = "TreeBuilder"
    /\ SinkCounted
    /\ \E sibling \in DOMAIN nodes, node \in DOMAIN nodes :
        /\ sibling # node
        /\ node # 1
        /\ nodes[sibling].parent # None
        /\ ~is_text(nodes[sibling].data)
        /\ node \notin parents(nodes, sibling, Len(nodes))
        /\ nodes' = IF append_before_sibling_deadlocks(nodes, sibling, node, TRUE)
                     THEN TreeBuilderAppendBeforeSiblingStuck(nodes, node, TRUE)
                     ELSE TreeBuilderAppendBeforeSiblingNode(nodes, sibling, node)
        /\ slast' = SinkCallOn("append_before_sibling_node", sibling, node, "",
                ~append_before_sibling_deadlocks(nodes, sibling, node, TRUE))
    /\ UNCHANGED <<sink, tree>>

TreeBuilder_append_before_sibling_text ==
    /\ sink = "TreeBuilder"
    /\ SinkCounted
    /\ \E sibling \in DOMAIN nodes, text \in Runs :
        /\ nodes[sibling].parent # None
        /\ ~is_text(nodes[sibling].data)
        /\ nodes' = IF append_before_sibling_deadlocks(nodes, sibling, sibling, FALSE)
                     THEN TreeBuilderAppendBeforeSiblingStuck(nodes, sibling, FALSE)
                     ELSE TreeBuilderAppendBeforeSiblingText(nodes, sibling, text)
        /\ TreeBuilderBounded(nodes')
        /\ slast' = SinkCallOn("append_before_sibling_text", sibling, None, text,
                ~append_before_sibling_deadlocks(nodes, sibling, sibling, FALSE))
    /\ UNCHANGED <<sink, tree>>

\* the children go to a new parent outside node's subtree
TreeBuilder_reparent_children ==
    /\ sink = "TreeBuilder"
    /\ SinkCounted
    /\ \E node \in TreeBuilderParents, new_parent \in TreeBuilderParents :
        /\ node # new_parent
        /\ node \notin parents(nodes, new_parent, Len(nodes))
        /\ nodes' = TreeBuilderReparentChildren(nodes, node, new_parent)
        /\ slast' = SinkCall("reparent_children", None, "")
    /\ UNCHANGED <<sink, tree>>

TreeBuilder_remove_from_parent ==
    /\ sink = "TreeBuilder"
    /\ SinkCounted
    /\ \E target \in DOMAIN nodes :
        /\ nodes' = TreeBuilderRemoveFromParent(nodes, target)
        /\ slast' = SinkCallOn("remove_from_parent", None, target, "", TRUE)
    /\ UNCHANGED <<sink, tree>>

ArcDom_create_element ==
    /\ sink = "ArcDom"
    /\ SinkCounted
    /\ nodes' = NodeNew(nodes, ElementNodeData)
    /\ TreeBuilderBounded(nodes')
    /\ slast' = SinkCall("create_element", None, "")
    /\ UNCHANGED <<sink, tree>>

ArcDom_create_comment ==
    /\ sink = "ArcDom"
    /\ SinkCounted
    /\ nodes' = NodeNew(nodes, CommentData("c"))
    /\ TreeBuilderBounded(nodes')
    /\ slast' = SinkCall("create_comment", None, "")
    /\ UNCHANGED <<sink, tree>>

\* the tree builder appends a node that has no parent
ArcDom_append_node ==
    /\ sink = "ArcDom"
    /\ SinkCounted
    /\ \E parent \in TreeBuilderParents, handle \in DOMAIN nodes :
        /\ handle # 1
        /\ ~ChildrenMutexGuardErrs(nodes, parent, handle)
        /\ handle \notin parents(nodes, parent, Len(nodes))
        /\ nodes' = ArcDomAppendNode(nodes, parent, handle)
        /\ slast' = SinkCall("append_node", parent, "")
    /\ UNCHANGED <<sink, tree>>

ArcDom_append_text ==
    /\ sink = "ArcDom"
    /\ SinkCounted
    /\ \E parent \in TreeBuilderParents, text \in Runs :
        /\ nodes' = ArcDomAppendText(nodes, parent, text)
        /\ TreeBuilderBounded(nodes')
        /\ slast' = SinkCall("append_text", parent, text)
    /\ UNCHANGED <<sink, tree>>

\* the node put before sibling may have a parent; sibling is no Text node
ArcDom_append_before_sibling_node ==
    /\ sink = "ArcDom"
    /\ SinkCounted
    /\ \E sibling \in DOMAIN nodes, node \in DOMAIN nodes :
        /\ sibling # node
        /\ node # 1
        /\ nodes[sibling].parent # None
        /\ ~is_text(nodes[sibling].data)
        /\ node \notin parents(nodes, sibling, Len(nodes))
        /\ nodes' = ArcDomAppendBeforeSiblingNode(nodes, sibling, node)
        /\ slast' = SinkCallOn("append_before_sibling_node", sibling, node, "",
                ~ArcDom_append_before_sibling_stops(nodes, sibling, node, TRUE))
    /\ UNCHANGED <<sink, tree>>

ArcDom_append_before_sibling_text ==
    /\ sink = "ArcDom"
    /\ SinkCounted
    /\ \E sibling \in DOMAIN nodes, text \in Runs :
        /\ nodes[sibling].parent # None
        /\ ~is_text(nodes[sibling].data)
        /\ nodes' = ArcDomAppendBeforeSiblingText(nodes, sibling, text)
        /\ TreeBuilderBounded(nodes')
        /\ slast' = SinkCallOn("append_before_sibling_text", sibling, None, text,
                ~ArcDom_append_before_sibling_stops(nodes, sibling, sibling, FALSE))
    /\ UNCHANGED <<sink, tree>>

\* the children go to a new parent outside node's subtree
ArcDom_reparent_children ==
    /\ sink = "ArcDom"
    /\ SinkCounted
    /\ \E node \in TreeBuilderParents, new_parent \in TreeBuilderParents :
        /\ node # new_parent
        /\ node \notin parents(nodes, new_parent, Len(nodes))
        /\ nodes' = ArcDomReparentChildren(nodes, node, new_parent)
        /\ slast' = SinkCall("reparent_children", None, "")
    /\ UNCHANGED <<sink, tree>>

ArcDom_remove_from_parent ==
    /\ sink = "ArcDom"
    /\ SinkCounted
    /\ \E target \in DOMAIN nodes :
        /\ nodes' = ArcDomRemoveFromParent(nodes, target)
        /\ slast' = SinkCallOn("remove_from_parent", None, target, "",
                               ~remove_from_parent_stops(nodes, target))
    /\ UNCHANGED <<sink, tree>>

\* Parser::append_doctype_to_document: the Doctype is orphaned and then
\* prepended to the root
Parser_append_doctype_to_document ==
    /\ sink = "Parser"
    /\ SinkCounted
    /\ tree' = prepend(orphan(tree, DoctypeData("html")), IndexDefault,
                       orphan_index(tree), FALSE)
    /\ ParserBounded(tree')
    /\ slast' = SinkCallOn("append_doctype_to_document", None,
                           orphan_index(tree), "", TRUE)
    /\ UNCHANGED <<sink, nodes>>

\* TreeBuilder::append_doctype_to_document: root.children().append(d)
TreeBuilder_append_doctype_to_document ==
    /\ sink = "TreeBuilder"
    /\ SinkCounted
    /\ nodes' = ChildrenAppend(NodeNew(nodes, DoctypeData("html")), 1,
                               Len(nodes) + 1)
    /\ TreeBuilderBounded(nodes')
    /\ slast' = SinkCallOn("append_doctype_to_document", None,
                           Len(nodes) + 1, "", TRUE)
    /\ UNCHANGED <<sink, tree>>

\* ArcDom::append_doctype_to_document: root.children().push(d), which is Ok
\* for a new node
ArcDom_append_doctype_to_document ==
    /\ sink = "ArcDom"
    /\ SinkCounted
    /\ nodes' = ChildrenMutexGuardPush(NodeNew(nodes, DoctypeData("html")), 1,
                                       Len(nodes) + 1)
    /\ TreeBuilderBounded(nodes')
    /\ slast' = SinkCallOn("append_doctype_to_document", None,
                           Len(nodes) + 1, "", TRUE)
    /\ UNCHANGED <<sink, tree>>

NextSink ==
    \/ Parser_create_element
    \/ Parser_create_comment
    \/ Parser_append_node
    \/ Parser_append_text
    \/ Parser_append_before_sibling_node
    \/ Parser_append_before_sibling_text
    \/ Parser_reparent_children
    \/ Parser_remove_from_parent
    \/ TreeBuilder_create_element
    \/ TreeBuilder_create_comment
    \/ TreeBuilder_append_node
    \/ TreeBuilder_append_text
    \/ TreeBuilder_append_before_sibling_node
    \/ TreeBuilder_append_before_sibling_text
    \/ TreeBuilder_reparent_children
    \/ TreeBuilder_remove_from_parent
    \/ ArcDom_create_element
    \/ ArcDom_create_comment
    \/ ArcDom_append_node
    \/ ArcDom_append_text
    \/ ArcDom_append_before_sibling_node
    \/ ArcDom_append_before_sibling_text
    \/ ArcDom_reparent_children
    \/ ArcDom_remove_from_parent
    \/ Parser_append_doctype_to_document
    \/ TreeBuilder_append_doctype_to_document
    \/ ArcDom_append_doctype_to_document

SpecSink == InitSink /\ [][NextSink]_vars

(***************************************************************************)
(* Reads and mutations of an element's attributes                          *)
(***************************************************************************)

\* the attributes a caller or the parser hands over
AttrPool ==
    {<<"id", "a">>, <<"id", "b">>, <<"class", "y x">>, <<"class", "x  z">>,
     <<"rel", "y">>}

InitAttrs ==
    /\ ArenaNew(0)
    /\ NoSink
    /\ impl \in {"ElementAttributeTrigger", "ElementData"}
    /\ \E attrs \in {<<>>} \cup {<<a>> : a \in AttrPool} :
          elem = ElementDataNew(attrs)
    /\ read = Read("none", NoneOption)
    /\ NoDom
    /\ NoRun

\* id() of either element type
ReadId ==
    /\ elem' = id(elem)
    /\ read' = Read("id", elem'.id[1])
    /\ UNCHANGED <<impl, arenaVars, sinkVars, domVars, runVars>>

\* classes() of either element type
ReadClasses ==
    /\ elem' = classes(elem)
    /\ read' = Read("classes", elem'.classes[1])
    /\ UNCHANGED <<impl, arenaVars, sinkVars, domVars, runVars>>

Trigger_push ==
    /\ impl = "ElementAttributeTrigger"
    /\ Len(elem.attrs) < MaxAttrs
    /\ \E attr \in AttrPool : elem' = TriggerPush(elem, attr)
    /\ read' = Read("none", NoneOption)
    /\ UNCHANGED <<impl, arenaVars, sinkVars, domVars, runVars>>

Trigger_pop ==
    /\ impl = "ElementAttributeTrigger"
    /\ elem' = TriggerPop(elem)
    /\ read' = Read("none", NoneOption)
    /\ UNCHANGED <<impl, arenaVars, sinkVars, domVars, runVars>>

Trigger_clear ==
    /\ impl = "ElementAttributeTrigger"
    /\ elem' = TriggerClear(elem)
    /\ read' = Read("none", NoneOption)
    /\ UNCHANGED <<impl, arenaVars, sinkVars, domVars, runVars>>

Data_push ==
    /\ impl = "ElementData"
    /\ Len(elem.attrs) < MaxAttrs
    /\ \E attr \in AttrPool : elem' = DataPush(elem, attr)
    /\ read' = Read("none", NoneOption)
    /\ UNCHANGED <<impl, arenaVars, sinkVars, domVars, runVars>>

Data_clear ==
    /\ impl = "ElementData"
    /\ elem' = DataClear(elem)
    /\ read' = Read("none", NoneOption)
    /\ UNCHANGED <<impl, arenaVars, sinkVars, domVars, runVars>>

Data_clear_id ==
    /\ impl = "ElementData"
    /\ elem' = clear_id(elem)
    /\ read' = Read("none", NoneOption)
    /\ UNCHANGED <<impl, arenaVars, sinkVars, domVars, runVars>>

Data_clear_classes ==
    /\ impl = "ElementData"
    /\ elem' = clear_classes(elem)
    /\ read' = Read("none", NoneOption)
    /\ UNCHANGED <<impl, arenaVars, sinkVars, domVars, runVars>>

TreeBuilder_add_attrs_if_missing ==
    /\ impl = "ElementData"
    /\ Len(elem.attrs) < MaxAttrs
    /\ \E attr \in AttrPool : elem' = add_attrs_if_missing(elem, <<attr>>)
    /\ read' = Read("none", NoneOption)
    /\ UNCHANGED <<impl, arenaVars, sinkVars, domVars, runVars>>

NextAttrs ==
    \/ ReadId
    \/ ReadClasses
    \/ Trigger_push
    \/ Trigger_pop
    \/ Trigger_clear
    \/ Data_push
    \/ Data_clear
    \/ Data_clear_id
    \/ Data_clear_classes
    \/ TreeBuilder_add_attrs_if_missing

SpecAttrs == InitAttrs /\ [][NextAttrs]_vars

(***************************************************************************)
(* An element's attribute list: the tree sinks' create_element and         *)
(* add_attrs_if_missing, then the attribute lists' public mutators         *)
(***************************************************************************)

\* the attribute lists a caller hands over
RECURSIVE AttrLists(_)
AttrLists(n) ==
    IF n = 0 THEN {<<>>}
    ELSE AttrLists(n - 1)
         \cup {Append(l, a) : l \in {x \in AttrLists(n - 1) : Len(x) = n - 1},
                              a \in AttrPool}

\* a call on the attribute list: the list before it and the attributes given
AttrCall(op, before, given) == Read(op, <<before, given>>)

\* the sink is chosen; no element is created yet
InitAttrList ==
    /\ ArenaNew(0)
    /\ NoSink
    /\ impl \in {"Parser", "TreeBuilder", "ArcDom"}
    /\ elem = ElementDataNew(<<>>)
    /\ read = Read("none", NoneOption)
    /\ NoDom
    /\ NoRun

\* the element exists and its list has room for n more attributes
Created(n) ==
    /\ read.what # "none"
    /\ Len(elem.attrs) + n <= MaxAttrList

AttrList_Parser_create_element ==
    /\ impl = "Parser"
    /\ read.what = "none"
    /\ \E attrs \in AttrLists(MaxAttrs) :
          /\ elem' = ParserCreateElement(attrs)
          /\ read' = AttrCall("create_element", <<>>, attrs)
    /\ UNCHANGED <<impl, arenaVars, sinkVars, domVars, runVars>>

AttrList_TreeBuilder_create_element ==
    /\ impl = "TreeBuilder"
    /\ read.what = "none"
    /\ \E attrs \in AttrLists(MaxAttrs) :
          /\ elem' = TreeBuilderCreateElement(attrs)
          /\ read' = AttrCall("create_element", <<>>, attrs)
    /\ UNCHANGED <<impl, arenaVars, sinkVars, domVars, runVars>>

AttrList_ArcDom_create_element ==
    /\ impl = "ArcDom"
    /\ read.what = "none"
    /\ \E attrs \in AttrLists(MaxAttrs) :
          /\ elem' = ArcDomCreateElement(attrs)
          /\ read' = AttrCall("create_element", <<>>, attrs)
    /\ UNCHANGED <<impl, arenaVars, sinkVars, domVars, runVars>>

AttrList_Parser_add_attrs_if_missing ==
    /\ impl = "Parser"
    /\ \E attrs \in AttrLists(MaxAttrs) :
          /\ Created(Len(attrs))
          /\ elem' = ParserAddAttrsIfMissing(elem, attrs)
          /\ read' = AttrCall("add_attrs_if_missing", elem.attrs, attrs)
    /\ UNCHANGED <<impl, arenaVars, sinkVars, domVars, runVars>>

AttrList_TreeBuilder_add_attrs_if_missing ==
    /\ impl = "TreeBuilder"
    /\ \E attrs \in AttrLists(MaxAttrs) :
          /\ Created(Len(attrs))
          /\ elem' = add_attrs_if_missing(elem, attrs)
          /\ read' = AttrCall("add_attrs_if_missing", elem.attrs, attrs)
    /\ UNCHANGED <<impl, arenaVars, sinkVars, domVars, runVars>>

AttrList_ArcDom_add_attrs_if_missing ==
    /\ impl = "ArcDom"
    /\ \E attrs \in AttrLists(MaxAttrs) :
          /\ Created(Len(attrs))
          /\ elem' = ArcDomAddAttrsIfMissing(elem, attrs)
          /\ read' = AttrCall("add_attrs_if_missing", elem.attrs, attrs)
    /\ UNCHANGED <<impl, arenaVars, sinkVars, domVars, runVars>>

\* PyAttrsList of core::nodes edits the elements of the Parser's tree: push,
\* update_value, remove, swap_remove, dedup, reverse
PyAttrsList_push ==
    /\ impl = "Parser"
    /\ Created(1)
    /\ \E attr \in AttrPool :
          /\ elem' = [elem EXCEPT !.attrs = Append(@, attr)]
          /\ read' = AttrCall("push", elem.attrs, <<attr>>)
    /\ UNCHANGED <<impl, arenaVars, sinkVars, domVars, runVars>>

PyAttrsList_update_value ==
    /\ impl = "Parser"
    /\ Created(0)
    /\ \E index \in 0..(Len(elem.attrs) - 1), attr \in AttrPool :
          /\ elem' = [elem EXCEPT !.attrs[index + 1][2] = attr[2]]
          /\ read' = AttrCall("update_value", elem.attrs, <<attr>>)
    /\ UNCHANGED <<impl, arenaVars, sinkVars, domVars, runVars>>

PyAttrsList_remove ==
    /\ impl = "Parser"
    /\ Created(0)
    /\ \E index \in 0..(Len(elem.attrs) - 1) :
          /\ elem' = [elem EXCEPT !.attrs = VecRemove(@, index)]
          /\ read' = AttrCall("remove", elem.attrs, <<>>)
    /\ UNCHANGED <<impl, arenaVars, sinkVars, domVars, runVars>>

PyAttrsList_swap_remove ==
    /\ impl = "Parser"
    /\ Created(0)
    /\ \E index \in 0..(Len(elem.attrs) - 1) :
          /\ elem' = [elem EXCEPT !.attrs = VecSwapRemove(@, index)]
          /\ read' = AttrCall("swap_remove", elem.attrs, <<>>)
    /\ UNCHANGED <<impl, arenaVars, sinkVars, domVars, runVars>>

PyAttrsList_dedup ==
    /\ impl = "Parser"
    /\ Created(0)
    /\ elem' = [elem EXCEPT !.attrs = dedup(@)]
    /\ read' = AttrCall("dedup", elem.attrs, <<>>)
    /\ UNCHANGED <<impl, arenaVars, sinkVars, domVars, runVars>>

PyAttrsList_reverse ==
    /\ impl = "Parser"
    /\ Created(0)
    /\ elem' = [elem EXCEPT !.attrs = VecReverse(@)]
    /\ read' = AttrCall("reverse", elem.attrs, <<>>)
    /\ UNCHANGED <<impl, arenaVars, sinkVars, domVars, runVars>>

\* PyElementDataAttributes of bridge::elementdata edits the elements of the
\* arcdom sinks: __setitem__, insert, sort
PyElementDataAttributes_setitem ==
    /\ impl \in {"TreeBuilder", "ArcDom"}
    /\ Created(0)
    /\ \E index \in 0..(Len(elem.attrs) - 1), attr \in AttrPool :
          /\ elem' = [elem EXCEPT !.attrs[index + 1] = attr]
          /\ read' = AttrCall("setitem", elem.attrs, <<attr>>)
    /\ UNCHANGED <<impl, arenaVars, sinkVars, domVars, runVars>>

PyElementDataAttributes_insert ==
    /\ impl \in {"TreeBuilder", "ArcDom"}
    /\ Created(1)
    /\ \E index \in 0..Len(elem.attrs), attr \in AttrPool :
          /\ elem' = [elem EXCEPT !.attrs = VecInsert(@, index, attr)]
          /\ read' = AttrCall("insert", elem.attrs, <<attr>>)
    /\ UNCHANGED <<impl, arenaVars, sinkVars, domVars, runVars>>

PyElementDataAttributes_sort ==
    /\ impl \in {"TreeBuilder", "ArcDom"}
    /\ Created(0)
    /\ elem' = [elem EXCEPT !.attrs = sort_unstable_by_name(@)]
    /\ read' = AttrCall("sort", elem.attrs, <<>>)
    /\ UNCHANGED <<impl, arenaVars, sinkVars, domVars, runVars>>

NextAttrList ==
    \/ AttrList_Parser_create_element
    \/ AttrList_TreeBuilder_create_element
    \/ AttrList_ArcDom_create_element
    \/ AttrList_Parser_add_attrs_if_missing
    \/ AttrList_TreeBuilder_add_attrs_if_missing
    \/ AttrList_ArcDom_add_attrs_if_missing
    \/ PyAttrsList_push
    \/ PyAttrsList_update_value
    \/ PyAttrsList_remove
    \/ PyAttrsList_swap_remove
    \/ PyAttrsList_dedup
    \/ PyAttrsList_reverse
    \/ PyElementDataAttributes_setitem
    \/ PyElementDataAttributes_insert
    \/ PyElementDataAttributes_sort

SpecAttrList == InitAttrList /\ [][NextAttrList]_vars

(***************************************************************************)
(* treedom::TreeDom: the arena of NodeData and the prefixes' namespaces    *)
(***************************************************************************)

\* an Element of treedom::data with the prefix and the namespace of its name
TreeDomElement(prefix, ns) ==
    [kind |-> "Element", contents |-> "", prefix |-> prefix, ns |-> ns]

\* the values handed to TreeDom::orphan
TreeDomValues ==
    {TreeDomElement(NoneOption, ""), TreeDomElement(Some("ns1"), "namespace1"),
     TextData("t")}

\* HashMap::insert and HashMap::remove on a map kept as its set of entries
HashMapInsert(m, k, v) == {e \in m : e[1] # k} \cup {<<k, v>>}
HashMapRemove(m, k) == {e \in m : e[1] # k}

\* what append, prepend, insert_before and insert_after do after the arena
\* call: the prefix of an element with a prefix is recorded
Recorded(m, value) ==
    IF value.kind = "Element" /\ value.prefix # NoneOption
    THEN HashMapInsert(m, value.prefix[1], value.ns) ELSE m

\* TreeDom::default: the Document is the root and no prefix is recorded
InitTreeDom ==
    /\ vec = UNITreeNew(DocumentData)
    /\ pre = TRUE
    /\ last = Call("new", "")
    /\ calls = 0
    /\ budget = MaxDomCalls
    /\ NoSink
    /\ NoElement
    /\ NoDom
    /\ NoRun

\* an arena call of the TreeDom: the namespaces are the only other state
TreeDomCounted ==
    /\ calls < budget
    /\ calls' = calls + 1
    /\ UNCHANGED <<pre, budget, sinkVars, attrVars, runVars>>

\* TreeDom::orphan: the node returned holds the index UNITree::orphan returned
TreeDom_orphan ==
    /\ len(vec) < MaxDomNodes
    /\ \E value \in TreeDomValues :
          /\ vec' = orphan(vec, value)
          /\ out' = Read("orphan", <<orphan_index(vec), value>>)
    /\ last' = Call("orphan", "")
    /\ UNCHANGED <<pre, calls, budget, sinkVars, attrVars, runVars, namespaces, errors,
                   lineno>>

TreeDom_append ==
    /\ TreeDomCounted
    /\ \E parent \in Indexes(vec), child \in Indexes(vec), item_late \in BOOLEAN :
        /\ parent # child
        /\ last_children(Get(vec, parent)) # child
              => ~detach_item_panics(vec, child)
        /\ vec' = append(vec, parent, child, item_late)
        /\ namespaces' = Recorded(namespaces, Get(vec, child).value)
    /\ last' = Call("append", "")
    /\ UNCHANGED <<errors, lineno, out>>

TreeDom_prepend ==
    /\ TreeDomCounted
    /\ \E parent \in Indexes(vec), child \in Indexes(vec), item_late \in BOOLEAN :
        /\ parent # child
        /\ first_children(Get(vec, parent)) # child
              => ~detach_item_panics(vec, child)
        /\ vec' = prepend(vec, parent, child, item_late)
        /\ namespaces' = Recorded(namespaces, Get(vec, child).value)
    /\ last' = Call("prepend", "")
    /\ UNCHANGED <<errors, lineno, out>>

TreeDom_insert_before ==
    /\ TreeDomCounted
    /\ \E sibling \in Indexes(vec), node \in Indexes(vec), item_late \in BOOLEAN :
        /\ sibling # node
        /\ Get(vec, sibling).parent # None
        /\ ~insert_panics(vec, sibling, node, item_late)
        /\ vec' = insert_before(vec, sibling, node, item_late)
        /\ namespaces' = Recorded(namespaces, Get(vec, node).value)
    /\ last' = Call("insert_before", "")
    /\ UNCHANGED <<errors, lineno, out>>

TreeDom_insert_after ==
    /\ TreeDomCounted
    /\ \E sibling \in Indexes(vec), node \in Indexes(vec), item_late \in BOOLEAN :
        /\ sibling # node
        /\ Get(vec, sibling).parent # None
        /\ ~insert_panics(vec, sibling, node, item_late)
        /\ vec' = insert_after(vec, sibling, node, item_late)
        /\ namespaces' = Recorded(namespaces, Get(vec, node).value)
    /\ last' = Call("insert_after", "")
    /\ UNCHANGED <<errors, lineno, out>>

\* TreeDom::detach: the arena call, then the prefix of a detached element
\* with a prefix is removed from the map
TreeDom_detach ==
    /\ TreeDomCounted
    /\ \E node \in Indexes(vec), item_late \in BOOLEAN :
        /\ ~detach_item_panics(vec, node)
        /\ vec' = detach(vec, node, item_late)
        /\ namespaces' =
              LET value == Get(vec, node).value IN
              IF value.kind = "Element" /\ value.prefix # NoneOption
              THEN HashMapRemove(namespaces, value.prefix[1])
              ELSE namespaces
    /\ last' = Call("detach", "")
    /\ UNCHANGED <<errors, lineno, out>>

TreeDom_reparent_append ==
    /\ TreeDomCounted
    /\ \E new_parent \in Indexes(vec), node \in Indexes(vec) :
        /\ new_parent # node
        /\ vec' = reparent_append(vec, new_parent, node)
    /\ last' = Call("reparent_append", "")
    /\ UNCHANGED <<namespaces, errors, lineno, out>>

TreeDom_reparent_prepend ==
    /\ TreeDomCounted
    /\ \E new_parent \in Indexes(vec), node \in Indexes(vec) :
        /\ new_parent # node
        /\ vec' = reparent_prepend(vec, new_parent, node)
    /\ last' = Call("reparent_prepend", "")
    /\ UNCHANGED <<namespaces, errors, lineno, out>>

NextTreeDom ==
    \/ TreeDom_orphan
    \/ TreeDom_append
    \/ TreeDom_prepend
    \/ TreeDom_insert_before
    \/ TreeDom_insert_after
    \/ TreeDom_detach
    \/ TreeDom_reparent_append
    \/ TreeDom_reparent_prepend

SpecTreeDom == InitTreeDom /\ [][NextTreeDom]_vars

(***************************************************************************)
(* The tree sinks' parse_error and set_current_line                        *)
(***************************************************************************)

\* the messages the tokenizer and the tree builder report
Messages == {"eof", "bad"}

\* an entry of the error list is the tuple of its fields: <<msg>> for a
\* Cow<str>, <<msg, line>> for an ErrorWithLine
InitErrors ==
    /\ ArenaNew(0)
    /\ sink \in {"Parser", "TreeBuilder", "ArcDom"}
    /\ tree = ParserNew
    /\ nodes = IF sink = "ArcDom" THEN ArcDomNew ELSE TreeBuilderNew
    /\ slast = SinkCall("new", None, "")
    /\ NoElement
    /\ NoDom
    /\ NoRun

\* Parser::parse_error: errors.push(msg)
Parser_parse_error ==
    /\ sink = "Parser"
    /\ Len(errors) < MaxErrors
    /\ \E msg \in Messages :
          /\ errors' = Append(errors, <<msg>>)
          /\ slast' = SinkCall("parse_error", None, msg)
    /\ UNCHANGED <<arenaVars, sink, tree, nodes, attrVars, runVars, namespaces, lineno, out>>

\* Parser::set_current_line: *lineno = n
Parser_set_current_line ==
    /\ sink = "Parser"
    /\ \E n \in 0..MaxLine :
          /\ lineno' = n
          /\ out' = Read("set_current_line", Some(n))
    /\ slast' = SinkCall("set_current_line", None, "")
    /\ UNCHANGED <<arenaVars, sink, tree, nodes, attrVars, runVars, namespaces, errors>>

\* TreeBuilder::parse_error: errors.push(ErrorWithLine(msg, *lineno))
TreeBuilder_parse_error ==
    /\ sink = "TreeBuilder"
    /\ Len(errors) < MaxErrors
    /\ \E msg \in Messages :
          /\ errors' = Append(errors, <<msg, lineno>>)
          /\ slast' = SinkCall("parse_error", None, msg)
    /\ UNCHANGED <<arenaVars, sink, tree, nodes, attrVars, runVars, namespaces, lineno, out>>

\* TreeBuilder::set_current_line: *lineno = _line_number
TreeBuilder_set_current_line ==
    /\ sink = "TreeBuilder"
    /\ \E n \in 0..MaxLine :
          /\ lineno' = n
          /\ out' = Read("set_current_line", Some(n))
    /\ slast' = SinkCall("set_current_line", None, "")
    /\ UNCHANGED <<arenaVars, sink, tree, nodes, attrVars, runVars, namespaces, errors>>

\* ArcDom::parse_error: errors.push(msg)
ArcDom_parse_error ==
    /\ sink = "ArcDom"
    /\ Len(errors) < MaxErrors
    /\ \E msg \in Messages :
          /\ errors' = Append(errors, <<msg>>)
          /\ slast' = SinkCall("parse_error", None, msg)
    /\ UNCHANGED <<arenaVars, sink, tree, nodes, attrVars, runVars, namespaces, lineno, out>>

\* ArcDom::set_current_line: the body is empty
ArcDom_set_current_line ==
    /\ sink = "ArcDom"
    /\ \E n \in 0..MaxLine : out' = Read("set_current_line", Some(n))
    /\ slast' = SinkCall("set_current_line", None, "")
    /\ UNCHANGED <<arenaVars, sink, tree, nodes, attrVars, runVars, namespaces, errors, lineno>>

NextErrors ==
    \/ Parser_parse_error
    \/ Parser_set_current_line
    \/ TreeBuilder_parse_error
    \/ TreeBuilder_set_current_line
    \/ ArcDom_parse_error
    \/ ArcDom_set_current_line

SpecErrors == InitErrors /\ [][NextErrors]_vars

(***************************************************************************)
(* Iteration, selection, the selectors' view of a node, and serialization  *)
(***************************************************************************)

\* the reverse of a sequence (Iterator::rev)
Reversed(s) == [k \in 1..Len(s) |-> s[Len(s) + 1 - k]]

\* Node::is_element, Node::is_text
is_element(h, node) == h[node].data.kind = "Element"

\* NodesTree::new(node, include_node): the stack of nodes still to visit
NodesTreeNew(h, node, include_node) ==
    IF include_node THEN <<node>> ELSE h[node].children

\* NodesTree::next on a stack that is not empty: the node popped from the
\* stack, and the stack with the node's children put on it, reversed
NodesTreeNext(h, stack) ==
    LET node == stack[Len(stack)] IN
    <<node, SubSeq(stack, 1, Len(stack) - 1) \o Reversed(h[node].children)>>

\* the nodes a NodesTree yields until next returns None
RECURSIVE NodesTreeCollect(_, _)
NodesTreeCollect(h, stack) ==
    IF stack = <<>> THEN <<>>
    ELSE <<NodesTreeNext(h, stack)[1]>>
             \o NodesTreeCollect(h, NodesTreeNext(h, stack)[2])

\* iter::Traverse::new(tree, index)
TraverseNew(index) == [root |-> index, edge |-> None, open |-> FALSE]

\* iter::Traverse::next: the iterator after the call; edge None is the end
TraverseNext(t, it) ==
    IF it.edge = None
    THEN IF it.root # None THEN [it EXCEPT !.edge = it.root, !.open = TRUE]
         ELSE it
    ELSE IF it.open
    THEN IF first_children(Get(t, it.edge)) # None
         THEN [it EXCEPT !.edge = first_children(Get(t, it.edge))]
         ELSE [it EXCEPT !.open = FALSE]
    ELSE IF it.edge = it.root
         THEN [it EXCEPT !.root = None, !.edge = None]
    ELSE IF Get(t, it.edge).next_sibling # None
         THEN [it EXCEPT !.edge = Get(t, it.edge).next_sibling, !.open = TRUE]
    ELSE [it EXCEPT !.edge = Get(t, it.edge).parent]

\* the edges a Traverse yields until next returns None, at most fuel of them
RECURSIVE TraverseCollect(_, _, _)
TraverseCollect(t, it, fuel) ==
    LET after == TraverseNext(t, it) IN
    IF after.edge = None \/ fuel = 0 THEN <<>>
    ELSE <<[node |-> after.edge, open |-> after.open]>>
             \o TraverseCollect(t, after, fuel - 1)

\* the nodes of the Open edges, in the order of the edges
RECURSIVE Opened(_)
Opened(edges) ==
    IF edges = <<>> THEN <<>>
    ELSE (IF edges[1].open THEN <<edges[1].node>> ELSE <<>>)
             \o Opened(Tail(edges))

\* a node and the nodes below it in document order
RECURSIVE DocumentOrder(_, _)
RECURSIVE DocumentOrderOfAll(_, _)
DocumentOrder(h, node) == <<node>> \o DocumentOrderOfAll(h, h[node].children)

DocumentOrderOfAll(h, s) ==
    IF s = <<>> THEN <<>>
    ELSE DocumentOrder(h, s[1]) \o DocumentOrderOfAll(h, Tail(s))

\* NodesIterator: the descendants of root in document order
NodesIterator(h, root) == Tail(DocumentOrder(h, root))

\* a compiled selector is the set of the nodes that it matches;
\* SelectExprGroup::matches: some selector of the list matches the node
matches(expr, node) == \E k \in DOMAIN expr : node \in expr[k]

\* Select::next without the test for an Element
RECURSIVE SelectCollectAnyNode(_, _, _)
SelectCollectAnyNode(h, inner, expr) ==
    IF inner = <<>> THEN <<>>
    ELSE (IF matches(expr, inner[1]) THEN <<inner[1]>> ELSE <<>>)
             \o SelectCollectAnyNode(h, Tail(inner), expr)

\* Select::next, called until it returns None: the nodes of the inner
\* iterator that are Elements and match, in the iterator's order
RECURSIVE SelectCollect(_, _, _)
SelectCollect(h, inner, expr) ==
    IF inner = <<>> THEN <<>>
    ELSE (IF is_element(h, inner[1]) /\ matches(expr, inner[1])
          THEN <<inner[1]>> ELSE <<>>)
             \o SelectCollect(h, Tail(inner), expr)

\* Iterator::find(|x| x.is_element()) on a slice of nodes
find_element(h, s) ==
    IF \E k \in DOMAIN s : is_element(h, s[k])
    THEN s[CHOOSE k \in DOMAIN s :
               /\ is_element(h, s[k])
               /\ \A j \in 1..(k - 1) : ~is_element(h, s[j])]
    ELSE None

\* core::matching: Element::prev_sibling_element for Node
prev_sibling_element(h, node) ==
    IF h[node].parent = None THEN None
    ELSE LET p_children == h[h[node].parent].children
             index == position(h, h[node].parent, node) - 1
         IN  IF index = 0 THEN None
             ELSE find_element(h, SubSeq(p_children, 1, index))

\* core::matching: Element::next_sibling_element for Node
next_sibling_element(h, node) ==
    IF h[node].parent = None THEN None
    ELSE LET p_children == h[h[node].parent].children
             index == position(h, h[node].parent, node) - 1
         IN  IF index = Len(p_children) - 1 THEN None
             ELSE find_element(h, SubSeq(p_children, index + 2, Len(p_children)))

\* core::matching: Element::is_empty for Node
is_empty(h, node) ==
    ~\E k \in DOMAIN h[node].children :
        \/ is_element(h, h[node].children[k])
        \/ is_text(h[h[node].children[k]].data)

\* matching: Element::prev_sibling_element for SelectableNode, from the
\* sibling prev
RECURSIVE SelectablePrevSiblingElement(_, _)
SelectablePrevSiblingElement(t, prev) ==
    IF prev = None THEN None
    ELSE IF Get(t, prev).value.kind = "Element" THEN prev
    ELSE SelectablePrevSiblingElement(t, Get(t, prev).prev_sibling)

\* matching: Element::next_sibling_element for SelectableNode, from the
\* sibling next
RECURSIVE SelectableNextSiblingElement(_, _)
SelectableNextSiblingElement(t, next) ==
    IF next = None THEN None
    ELSE IF Get(t, next).value.kind = "Element" THEN next
    ELSE SelectableNextSiblingElement(t, Get(t, next).next_sibling)

\* matching: Element::is_empty for SelectableNode
SelectableIsEmpty(t, node) ==
    ~\E i \in Indexes(t) : is_text(Get(t, i).value)

\* an event the serializer is given, and the node whose data it carries
Event(ev, node) == [ev |-> ev, node |-> node]

\* NodeEdge::Open(node), NodeEdge::Close(name of node)
NodeEdge(open, node) == [open |-> open, node |-> node]

\* the edges that open the nodes of s, the last node first
OpenReversed(s) == [k \in 1..Len(s) |-> NodeEdge(TRUE, s[Len(s) + 1 - k])]

\* the loop of Node::serialize: the events written, and whether the loop
\* ended without reaching unreachable!()
RECURSIVE SerializeLoop(_, _, _)
SerializeLoop(h, edges, events) ==
    IF edges = <<>> THEN [events |-> events, returned |-> TRUE]
    ELSE LET edge == edges[Len(edges)]
             rest == SubSeq(edges, 1, Len(edges) - 1)
             kind == h[edge.node].data.kind
         IN  IF ~edge.open
             THEN SerializeLoop(h, rest,
                                Append(events, Event("end_elem", edge.node)))
             ELSE IF kind = "Element"
             THEN SerializeLoop(h,
                      Append(rest, NodeEdge(FALSE, edge.node))
                          \o OpenReversed(h[edge.node].children),
                      Append(events, Event("start_elem", edge.node)))
             ELSE IF kind = "Doctype"
             THEN SerializeLoop(h, rest,
                                Append(events, Event("write_doctype", edge.node)))
             ELSE IF kind = "Text"
             THEN SerializeLoop(h, rest,
                                Append(events, Event("write_text", edge.node)))
             ELSE IF kind = "Comment"
             THEN SerializeLoop(h, rest,
                                Append(events, Event("write_comment", edge.node)))
             ELSE [events |-> events, returned |-> FALSE]

\* Node::serialize(serializer, traversal_scope)
serialize(h, node, traversal_scope) ==
    IF traversal_scope = "IncludeNode"
    THEN SerializeLoop(h, <<NodeEdge(TRUE, node)>>, <<>>)
    ELSE SerializeLoop(h, OpenReversed(h[node].children), <<>>)

(***************************************************************************)
(* A parsed tree and the queries on it                                     *)
(***************************************************************************)

\* a tree sink with an empty document: Parser builds the TreeDom's arena,
\* TreeBuilder the arcdom nodes
InitQuery ==
    /\ ArenaNew(MaxQueryCalls)
    /\ sink \in {"Parser", "TreeBuilder"}
    /\ tree = ParserNew
    /\ nodes = TreeBuilderNew
    /\ slast = SinkCall("new", None, "")
    /\ NoElement
    /\ NoDom
    /\ NoRun

\* TreeSink::finish(self) consumes the sink: no callback follows it
TreeSink_finish ==
    /\ slast.returned
    /\ slast.op # "finish"
    /\ slast' = SinkCall("finish", None, "")
    /\ calls' = budget
    /\ UNCHANGED <<vec, pre, last, budget, sink, tree, nodes, attrVars, runVars, domVars>>

\* the tree is queried after the parse; a query changes nothing, so that a
\* run makes one
Queried(s) ==
    /\ sink = s
    /\ slast.op = "finish"
    /\ out.what = "none"
    /\ UNCHANGED <<arenaVars, sinkVars, attrVars, runVars, namespaces, errors, lineno>>

\* the compiled selectors: one for each node, and one for all nodes
SelectorPool(h) == {{n} : n \in DOMAIN h} \cup {DOMAIN h}

\* the selector lists of one selector, and of two selectors of which the
\* first is for one node and the second for a later node or for all nodes
SelectorLists(h) ==
    {<<s>> : s \in SelectorPool(h)}
        \cup {<<{ab[1]}, {ab[2]}>> :
                  ab \in {p \in (DOMAIN h) \X (DOMAIN h) : p[1] < p[2]}}
        \cup {<<{a}, DOMAIN h>> : a \in DOMAIN h}

\* NodesTree::new(node, include_node), iterated to its end
NodesTree_iterate ==
    /\ Queried("TreeBuilder")
    /\ \E node \in DOMAIN nodes, include_node \in BOOLEAN :
          out' = Read("NodesTree",
                      [node |-> node, include_node |-> include_node,
                       visited |-> NodesTreeCollect(nodes,
                                       NodesTreeNew(nodes, node, include_node))])

\* iter::Traverse::new(tree, index), iterated to its end
Traverse_iterate ==
    /\ Queried("Parser")
    /\ \E index \in Indexes(tree) :
          out' = Read("Traverse",
                      [node |-> index,
                       edges |-> TraverseCollect(tree, TraverseNew(index),
                                                 2 * len(tree) + 1)])

\* Select over the descendants of root, iterated to its end
Select_iterate ==
    /\ Queried("TreeBuilder")
    /\ \E root \in DOMAIN nodes, expr \in SelectorLists(nodes) :
          out' = Read("Select",
                      [root |-> root, expr |-> expr,
                       yielded |-> SelectCollect(nodes,
                                       NodesIterator(nodes, root), expr)])

Node_prev_sibling_element ==
    /\ Queried("TreeBuilder")
    /\ \E node \in DOMAIN nodes :
          /\ is_element(nodes, node)
          /\ out' = Read("prev_sibling_element",
                         [node |-> node,
                          found |-> prev_sibling_element(nodes, node)])

Node_next_sibling_element ==
    /\ Queried("TreeBuilder")
    /\ \E node \in DOMAIN nodes :
          /\ is_element(nodes, node)
          /\ out' = Read("next_sibling_element",
                         [node |-> node,
                          found |-> next_sibling_element(nodes, node)])

Node_is_empty ==
    /\ Queried("TreeBuilder")
    /\ \E node \in DOMAIN nodes :
          /\ is_element(nodes, node)
          /\ out' = Read("is_empty",
                         [node |-> node, empty |-> is_empty(nodes, node)])

SelectableNode_prev_sibling_element ==
    /\ Queried("Parser")
    /\ \E node \in Indexes(tree) :
          /\ Get(tree, node).value.kind = "Element"
          /\ out' = Read("prev_sibling_element",
                         [node |-> node,
                          found |-> SelectablePrevSiblingElement(tree,
                                        Get(tree, node).prev_sibling)])

SelectableNode_next_sibling_element ==
    /\ Queried("Parser")
    /\ \E node \in Indexes(tree) :
          /\ Get(tree, node).value.kind = "Element"
          /\ out' = Read("next_sibling_element",
                         [node |-> node,
                          found |-> SelectableNextSiblingElement(tree,
                                        Get(tree, node).next_sibling)])

SelectableNode_is_empty ==
    /\ Queried("Parser")
    /\ \E node \in Indexes(tree) :
          /\ Get(tree, node).value.kind = "Element"
          /\ out' = Read("is_empty",
                         [node |-> node, empty |-> SelectableIsEmpty(tree, node)])

\* Node::serialize; returned is FALSE when the call panics
Node_serialize ==
    /\ Queried("TreeBuilder")
    /\ \E node \in DOMAIN nodes,
          traversal_scope \in {"IncludeNode", "ChildrenOnly"} :
          out' = Read("serialize",
                      [node |-> node, traversal_scope |-> traversal_scope]
                          @@ serialize(nodes, node, traversal_scope))

NextQuery ==
    \/ Parser_create_element
    \/ Parser_create_comment
    \/ Parser_append_node
    \/ Parser_append_text
    \/ TreeBuilder_create_element
    \/ TreeBuilder_create_comment
    \/ TreeBuilder_append_node
    \/ TreeBuilder_append_text
    \/ TreeBuilder_append_doctype_to_document
    \/ TreeSink_finish
    \/ NodesTree_iterate
    \/ Traverse_iterate
    \/ Select_iterate
    \/ Node_prev_sibling_element
    \/ Node_next_sibling_element
    \/ Node_is_empty
    \/ SelectableNode_prev_sibling_element
    \/ SelectableNode_next_sibling_element
    \/ SelectableNode_is_empty
    \/ Node_serialize

SpecQuery == InitQuery /\ [][NextQuery]_vars

(***************************************************************************)
(* treedom: the equality of Elements                                       *)
(***************************************************************************)

\* the attributes the compared elements are made of
EqAttrPool == {<<"id", "a">>, <<"id", "b">>, <<"rel", "a">>}

\* the attribute lists of at most MaxEqAttrs attributes, in any order
EqAttrLists ==
    UNION {[1..n -> EqAttrPool] : n \in 0..MaxEqAttrs}

\* Element::new(name, attrs, template, mathml_annotation_xml_integration_point)
ElementNew(name, attrs, template, mathml_annotation_xml_integration_point) ==
    [name |-> name, attrs |-> attrs, template |-> template,
     mathml_annotation_xml_integration_point |->
         mathml_annotation_xml_integration_point]

\* the elements that are compared
Elements ==
    {ElementNew(name, attrs, template, mathml) :
        name \in {"div", "p"}, attrs \in EqAttrLists,
        template \in BOOLEAN, mathml \in BOOLEAN}

\* Ord for (QualName, AtomicTendril): the names first, then the values
AttrGreater(x, y) ==
    \/ StrLess(y[1], x[1])
    \/ x[1] = y[1] /\ StrLess(y[2], x[2])

\* slice::binary_search_by from base over size items, size at least one:
\* whether it returns Ok
RECURSIVE binary_search_from(_, _, _, _)
binary_search_from(s, x, base, size) ==
    IF size > 1
    THEN LET half == size \div 2
             mid == base + half
         IN  binary_search_from(s, x,
                 IF AttrGreater(s[mid + 1], x) THEN base ELSE mid,
                 size - half)
    ELSE s[base + 1] = x

\* slice::binary_search(x).is_ok()
binary_search(s, x) ==
    IF Len(s) = 0 THEN FALSE ELSE binary_search_from(s, x, 0, Len(s))

\* PartialEq::eq for Element and for ElementInterface
ElementEq(self, other) ==
    IF \/ self.name # other.name
       \/ self.template # other.template
       \/ self.mathml_annotation_xml_integration_point
              # other.mathml_annotation_xml_integration_point
    THEN FALSE
    ELSE \A k \in DOMAIN self.attrs : binary_search(other.attrs, self.attrs[k])

\* two elements, of the treedom's Element or of its ElementInterface
InitEq ==
    /\ ArenaNew(0)
    /\ NoSink
    /\ impl \in {"Element", "ElementInterface"}
    /\ elem = ElementDataNew(<<>>)
    /\ read = Read("none", NoneOption)
    /\ namespaces = {}
    /\ errors = <<>>
    /\ lineno = 0
    /\ \E a \in Elements, b \in Elements : out = Read("elements", [a |-> a, b |-> b])
    /\ NoRun

\* a == b and b == a are evaluated
Compared(a, b) ==
    /\ out.what = "elements"
    /\ out' = Read("eq", [a |-> a, b |-> b, equal |-> ElementEq(a, b),
                          converse |-> ElementEq(b, a)])
    /\ UNCHANGED <<arenaVars, sinkVars, attrVars, runVars, namespaces, errors, lineno>>

Element_eq ==
    /\ impl = "Element"
    /\ Compared(out.result.a, out.result.b)

ElementInterface_eq ==
    /\ impl = "ElementInterface"
    /\ Compared(out.result.a, out.result.b)

NextEq ==
    \/ Element_eq
    \/ ElementInterface_eq

SpecEq == InitEq /\ [][NextEq]_vars

(***************************************************************************)
(* Mutexes and the threads that hold them                                  *)
(***************************************************************************)

\* NodeInner: the three mutexes of a node
Mutex(field, node) == <<field, node>>

\* the mutexes of the nodes of h, none of them held
Unlocked(h) ==
    [m \in {"data", "children", "parent"} \X DOMAIN h |-> 0]

\* parking_lot::Mutex::lock by thread t on a mutex that is free; a lock on a
\* mutex that is held waits for ever when the holder is t itself
lock(locks, m, t) == [locks EXCEPT ![m] = t]

\* the drop of the guard of m
unlock(locks, m) == [locks EXCEPT ![m] = 0]

\* the mutexes that thread t holds
HeldBy(t) == {m \in DOMAIN held : held[m] = t}

(***************************************************************************)
(* Node::serialize, step by step, with the mutexes it takes                *)
(***************************************************************************)

\* a document built by the TreeBuilder, not yet serialized
InitSerialize ==
    /\ ArenaNew(MaxSerializeCalls)
    /\ sink = "TreeBuilder"
    /\ tree = ParserNew
    /\ nodes = TreeBuilderNew
    /\ slast = SinkCall("new", None, "")
    /\ NoElement
    /\ NoDom
    /\ NoRun

\* the serializing thread moves; the tree is left alone
Serializing ==
    UNCHANGED <<arenaVars, sinkVars, attrVars, domVars, driver, iter>>

\* Node::serialize is entered: the edges are filled. For ChildrenOnly the
\* guard of self.children() is dropped at the end of the statement
Serialize_call ==
    /\ slast.op = "finish"
    /\ pc = <<>>
    /\ \E node \in DOMAIN nodes,
          traversal_scope \in {"IncludeNode", "ChildrenOnly"} :
          pc' = <<[at |-> "loop", node |-> node,
                   edges |-> IF traversal_scope = "IncludeNode"
                             THEN <<NodeEdge(TRUE, node)>>
                             ELSE OpenReversed(nodes[node].children),
                   callback |-> "none"]>>
    /\ held' = Unlocked(nodes)
    /\ Serializing

\* while let Some(edge) = edges.pop(): a Close edge calls end_elem; an Open
\* edge locks the node's data in the scrutinee of the match, and the arm of
\* the data calls the serializer; the Document has no arm
Serialize_pop ==
    /\ pc # <<>>
    /\ pc[1].at = "loop"
    /\ LET edges == pc[1].edges
           edge == edges[Len(edges)]
           rest == SubSeq(edges, 1, Len(edges) - 1)
           kind == nodes[edge.node].data.kind
       IN  IF edges = <<>>
           THEN /\ pc' = <<[pc[1] EXCEPT !.at = "returned"]>>
                /\ UNCHANGED held
           ELSE IF ~edge.open
           THEN /\ pc' = <<[pc[1] EXCEPT !.at = "callback", !.edges = rest,
                                         !.node = edge.node,
                                         !.callback = "end_elem"]>>
                /\ UNCHANGED held
           ELSE IF kind \in {"Element", "Doctype", "Text", "Comment"}
           THEN /\ held[Mutex("data", edge.node)] = 0
                /\ held' = lock(held, Mutex("data", edge.node), 1)
                /\ pc' = <<[pc[1] EXCEPT
                               !.at = "callback", !.edges = rest,
                               !.node = edge.node,
                               !.callback =
                                   IF kind = "Element" THEN "start_elem"
                                   ELSE IF kind = "Doctype" THEN "write_doctype"
                                   ELSE IF kind = "Text" THEN "write_text"
                                   ELSE "write_comment"]>>
           ELSE /\ pc' = <<[pc[1] EXCEPT !.at = "panicked", !.edges = rest,
                                         !.node = edge.node]>>
                /\ UNCHANGED held
    /\ Serializing

\* the serializer's method returns. After start_elem the Close edge and the
\* children are pushed, the guard of node.children() being dropped at the
\* end of its statement; the guard of the data is dropped at the end of the
\* match
Serialize_callback_returns ==
    /\ pc # <<>>
    /\ pc[1].at = "callback"
    /\ pc' = <<[pc[1] EXCEPT
                   !.at = "loop", !.callback = "none",
                   !.edges =
                       IF pc[1].callback = "start_elem"
                       THEN Append(@, NodeEdge(FALSE, pc[1].node))
                                \o OpenReversed(nodes[pc[1].node].children)
                       ELSE @]>>
    /\ held' = IF pc[1].callback = "end_elem" THEN held
               ELSE unlock(held, Mutex("data", pc[1].node))
    /\ Serializing

NextSerialize ==
    \/ TreeBuilder_create_element
    \/ TreeBuilder_create_comment
    \/ TreeBuilder_append_node
    \/ TreeBuilder_append_text
    \/ TreeBuilder_append_doctype_to_document
    \/ TreeSink_finish
    \/ Serialize_call
    \/ Serialize_pop
    \/ Serialize_callback_returns

SpecSerialize == InitSerialize /\ [][NextSerialize]_vars

(***************************************************************************)
(* The quirks mode byte                                                    *)
(***************************************************************************)

\* the values of a u8
U8Max == 255

QUIRKS_MODE_FULL == 0
QUIRKS_MODE_LIMITED == 1
QUIRKS_MODE_OFF == 2

\* bridge::builder and core::arcdom: quirks_mode_from_u8
quirks_mode_from_u8(value) ==
    IF value = QUIRKS_MODE_FULL THEN "Quirks"
    ELSE IF value = QUIRKS_MODE_LIMITED THEN "LimitedQuirks"
    ELSE "NoQuirks"

\* tools: convert_u8_to_quirks_mode
convert_u8_to_quirks_mode(num) ==
    IF num = QUIRKS_MODE_FULL THEN Some("Quirks")
    ELSE IF num = QUIRKS_MODE_LIMITED THEN Some("LimitedQuirks")
    ELSE IF num = QUIRKS_MODE_OFF THEN Some("NoQuirks")
    ELSE NoneOption

\* a byte is given as the quirks mode of the options
InitQuirks ==
    /\ ArenaNew(0)
    /\ NoSink
    /\ NoElement
    /\ namespaces = {}
    /\ errors = <<>>
    /\ lineno = 0
    /\ \E value \in 0..U8Max : out = Read("u8", value)
    /\ NoRun

\* the byte is decoded by the function named by, which answers mode
Decoded(by, mode) ==
    /\ out' = Read(by, [value |-> out.result, mode |-> mode])
    /\ UNCHANGED <<arenaVars, sinkVars, attrVars, namespaces, errors, lineno, runVars>>

\* PyRawHtmlOptions::new: quirks_mode: quirks_mode_from_u8(quirks_mode)
Builder_quirks_mode_from_u8 ==
    /\ out.what = "u8"
    /\ Decoded("bridge::builder", Some(quirks_mode_from_u8(out.result)))

ArcDom_quirks_mode_from_u8 ==
    /\ out.what = "u8"
    /\ Decoded("core::arcdom", Some(quirks_mode_from_u8(out.result)))

Tools_convert_u8_to_quirks_mode ==
    /\ out.what = "u8"
    /\ Decoded("tools", convert_u8_to_quirks_mode(out.result))

NextQuirks ==
    \/ Builder_quirks_mode_from_u8
    \/ ArcDom_quirks_mode_from_u8
    \/ Tools_convert_u8_to_quirks_mode

SpecQuirks == InitQuirks /\ [][NextQuirks]_vars

(***************************************************************************)
(* Selectors with :has over named Elements                                 *)
(***************************************************************************)

MaxHasCalls == 5

\* the local names of the parsed Elements and of the selectors
LocalNames == {"a", "href"}

\* the attribute lists of the parsed Elements: none, or href="u"
HasAttrs == {<<>>, << <<"href", "u">> >>}

\* ElementData::from_non_atomic(name, attrs, ..) inside NodeData::Element
ElementNamed(name, attrs) ==
    [kind |-> "Element", contents |-> "", name |-> name, attrs |-> attrs]

\* Element::first_element_child for Node
first_element_child(h, node) == find_element(h, h[node].children)

\* Element::has_local_name for Node, when every Element has any name
has_local_name_of_any(h, node, local_name) == TRUE

\* Element::has_local_name for Node
has_local_name(h, node, local_name) == h[node].data.name = local_name

\* the Elements from node along next_sibling_element, at most fuel of them
RECURSIVE ElementSiblings(_, _, _)
ElementSiblings(h, node, fuel) ==
    IF node = None \/ fuel = 0 THEN <<>>
    ELSE <<node>> \o ElementSiblings(h, next_sibling_element(h, node), fuel - 1)

\* :has(local_name), a relative selector with the descendant combinator:
\* an Element below node has the local name; the Elements below node are
\* walked with first_element_child and next_sibling_element
RECURSIVE has_descendant(_, _, _, _)
has_descendant(h, node, local_name, fuel) ==
    LET below == ElementSiblings(h, first_element_child(h, node), Len(h))
    IN  /\ fuel > 0
        /\ \E k \in DOMAIN below :
              \/ has_local_name(h, below[k], local_name)
              \/ has_descendant(h, below[k], local_name, fuel - 1)

\* SelectExprGroup::new("outer:has(inner)"): the Elements that the compiled
\* selector matches
SelectExprGroupHas(h, outer, inner) ==
    {n \in DOMAIN h :
        /\ is_element(h, n)
        /\ has_local_name(h, n, outer)
        /\ has_descendant(h, n, inner, Len(h))}

InitHas ==
    /\ ArenaNew(MaxHasCalls)
    /\ sink = "TreeBuilder"
    /\ tree = ParserNew
    /\ nodes = TreeBuilderNew
    /\ slast = SinkCall("new", None, "")
    /\ NoElement
    /\ NoDom
    /\ NoRun

\* TreeBuilder::create_element(name, attrs, flags)
TreeBuilder_create_element_named ==
    /\ sink = "TreeBuilder"
    /\ SinkCounted
    /\ \E name \in LocalNames, attrs \in HasAttrs :
          nodes' = NodeNew(nodes, ElementNamed(name, attrs))
    /\ TreeBuilderBounded(nodes')
    /\ slast' = SinkCall("create_element", None, "")
    /\ UNCHANGED <<sink, tree>>

\* TreeBuilder::append(parent, AppendText("x"))
TreeBuilder_append_text_x ==
    /\ sink = "TreeBuilder"
    /\ SinkCounted
    /\ \E parent \in TreeBuilderParents :
        /\ nodes' = TreeBuilderAppendText(nodes, parent, "x")
        /\ TreeBuilderBounded(nodes')
        /\ slast' = SinkCall("append_text", parent, "x")
    /\ UNCHANGED <<sink, tree>>

\* Select over the descendants of root with the expression outer:has(inner),
\* iterated to its end
Select_has ==
    /\ Queried("TreeBuilder")
    /\ \E root \in DOMAIN nodes, outer \in LocalNames, inner \in LocalNames :
          out' = Read("has",
                      [root |-> root, outer |-> outer, inner |-> inner,
                       yielded |-> SelectCollect(nodes,
                                       NodesIterator(nodes, root),
                                       <<SelectExprGroupHas(nodes, outer, inner)>>)])

NextHas ==
    \/ TreeBuilder_create_element_named
    \/ TreeBuilder_append_node
    \/ TreeBuilder_append_text_x
    \/ TreeSink_finish
    \/ Select_has

SpecHas == InitHas /\ [][NextHas]_vars

(***************************************************************************)
(* The streaming driver                                                    *)
(***************************************************************************)

MaxDriverCalls == 4
MaxFinalizeCalls == 3

\* a driver that is fed chunks: it was finalized `calls` times, which gave
\* `trees` trees, the last call with the result `last`
DriverNew == [state |-> "feeding", calls |-> 0, trees |-> 0, last |-> "none"]

\* a finalize that hands out a tree whenever it is called
finalize_again(d) ==
    [state |-> "finished", calls |-> d.calls + 1, trees |-> d.trees + 1,
     last |-> "Ok"]

\* finalize: the first call gives the tree, a later call fails with
\* StateExhausted
finalize(d) ==
    IF d.state = "feeding"
    THEN [state |-> "finished", calls |-> d.calls + 1, trees |-> d.trees + 1,
          last |-> "Ok"]
    ELSE [d EXCEPT !.calls = @ + 1, !.last = "StateExhausted"]

\* Parser::finish(self): the TreeDom of the tree, the errors, the line number
\* and the namespaces
Parser_finish == [tree |-> tree, errors |-> errors, lineno |-> lineno,
                  namespaces |-> namespaces]

InitDriver ==
    /\ ArenaNew(MaxDriverCalls)
    /\ sink = "Parser"
    /\ tree = ParserNew
    /\ nodes = TreeBuilderNew
    /\ slast = SinkCall("new", None, "")
    /\ NoElement
    /\ NoDom
    /\ pc = <<>>
    /\ held = <<>>
    /\ driver = DriverNew
    /\ iter = [len |-> 0, index |-> 0]

\* the driver is finalized; a call that gives a tree consumes the sink
Driver_finalize ==
    /\ sink = "Parser"
    /\ slast.returned
    /\ driver.calls < MaxFinalizeCalls
    /\ driver' = finalize(driver)
    /\ IF driver'.trees > driver.trees
       THEN /\ out' = Read("finalize", Parser_finish)
            /\ slast' = SinkCall("finish", None, "")
            /\ calls' = budget
       ELSE UNCHANGED <<out, slast, calls>>
    /\ UNCHANGED <<vec, pre, last, budget, sink, tree, nodes, attrVars,
                   namespaces, errors, lineno, pc, held, iter>>

NextDriver ==
    \/ Parser_create_element
    \/ Parser_append_node
    \/ Parser_append_text
    \/ Driver_finalize

SpecDriver == InitDriver /\ [][NextDriver]_vars

(***************************************************************************)
(* Iteration over the attributes of an Element                             *)
(***************************************************************************)

MaxIterCalls == 5
MaxIterAttrs == 2

\* the attributes that are appended during the run
IterAttrPool == {<<"id", "a">>, <<"rel", "y">>}

\* the attribute view of an Element with no attribute or one attribute:
\* len and index are 0, no iteration is in progress
InitIter ==
    /\ ArenaNew(MaxIterCalls)
    /\ NoSink
    /\ impl = "arcdom"
    /\ \E attrs \in {<<>>} \cup {<<a>> : a \in IterAttrPool} :
          elem = ElementDataNew(attrs)
    /\ read = Read("none", NoneOption)
    /\ NoDom
    /\ NoRun

\* a call on the view; out tells whether an iteration is in progress
IterCounted ==
    /\ impl = "arcdom"
    /\ calls < budget
    /\ calls' = calls + 1
    /\ UNCHANGED <<vec, pre, last, budget, sinkVars, impl, namespaces, errors,
                   lineno, pc, held, driver>>

InProgress == out.what = "iteration"

\* PyElementDataAttributes::__iter__
PyElementDataAttributes__iter__ ==
    /\ IterCounted
    /\ IF iter.len # 0
       THEN /\ read' = Read("__iter__", [raised |-> "RuntimeError",
                                         in_progress |-> InProgress])
            /\ UNCHANGED <<iter, out>>
       ELSE /\ iter' = [len |-> Len(elem.attrs), index |-> 0]
            /\ read' = Read("__iter__", [raised |-> "none",
                                         in_progress |-> InProgress])
            /\ out' = Read("iteration", Some(calls))
    /\ UNCHANGED elem

\* PyElementDataAttributes::__next__
PyElementDataAttributes__next__ ==
    /\ IterCounted
    /\ IF iter.len # Len(elem.attrs)
       THEN /\ iter' = [iter EXCEPT !.len = 0]
            /\ read' = Read("__next__", [raised |-> "RuntimeError",
                                         in_progress |-> InProgress])
            /\ out' = Read("none", NoneOption)
       ELSE IF iter.index >= Len(elem.attrs)
       THEN /\ iter' = [iter EXCEPT !.len = 0]
            /\ read' = Read("__next__", [raised |-> "StopIteration",
                                         in_progress |-> InProgress])
            /\ out' = Read("none", NoneOption)
       ELSE /\ iter' = [iter EXCEPT !.index = @ + 1]
            /\ read' = Read("__next__", [raised |-> "none",
                                         in_progress |-> InProgress,
                                         item |-> elem.attrs[iter.index + 1]])
            /\ UNCHANGED out
    /\ UNCHANGED elem

\* PyElementDataAttributes::append((name, value)): elem.attrs.push
PyElementDataAttributes_append ==
    /\ IterCounted
    /\ Len(elem.attrs) < MaxIterAttrs
    /\ \E attr \in IterAttrPool :
          elem' = [elem EXCEPT !.attrs = Append(@, attr)]
    /\ read' = Read("append", [raised |-> "none", in_progress |-> InProgress])
    /\ UNCHANGED <<iter, out>>

\* PyElementDataAttributes::clear: elem.attrs.clear()
PyElementDataAttributes_clear ==
    /\ IterCounted
    /\ elem' = [elem EXCEPT !.attrs = <<>>]
    /\ read' = Read("clear", [raised |-> "none", in_progress |-> InProgress])
    /\ UNCHANGED <<iter, out>>

NextIter ==
    \/ PyElementDataAttributes__iter__
    \/ PyElementDataAttributes__next__
    \/ PyElementDataAttributes_append
    \/ PyElementDataAttributes_clear

SpecIter == InitIter /\ [][NextIter]_vars

(***************************************************************************)
(* Two threads on one parent and one child: unlink and Children            *)
(***************************************************************************)

MaxThreadCalls == 4

InitThreads ==
    /\ ArenaNew(MaxThreadCalls)
    /\ sink = "TreeBuilder"
    /\ tree = ParserNew
    /\ nodes = TreeBuilderNew
    /\ slast = SinkCall("new", None, "")
    /\ NoElement
    /\ NoDom
    /\ NoRun

\* the threads move; the arena, the sink and the views are left alone
Threading ==
    UNCHANGED <<arenaVars, sink, tree, slast, attrVars, domVars, driver, iter>>

\* thread 1 calls child.unlink() and thread 2 calls
\* parent.children().append(child), .insert(0, child) or
\* .remove(position of child), in a debug or in a release build; a child that
\* is appended or inserted has no parent, a child that is removed is a child
\* of parent
Threads_call ==
    /\ slast.op = "finish"
    /\ pc = <<>>
    /\ \E parent \in TreeBuilderParents, child \in DOMAIN nodes,
          op \in {"append", "insert", "remove"},
          build \in {"debug", "release"} :
          /\ parent # child
          /\ op = "remove" => nodes[child].parent = parent
          /\ op # "remove" => nodes[child].parent = None
          /\ pc' = <<[at |-> "parent", node |-> child, parent |-> None],
                     [at |-> "children", op |-> op, node |-> parent,
                      child |-> child, build |-> build]>>
    /\ held' = Unlocked(nodes)
    /\ UNCHANGED nodes
    /\ Threading

\* Node::unlink: if let Some(parent) = self.parent().take(); the guard of
\* self.parent() lives to the end of the if let
Node_unlink_parent_take ==
    /\ pc # <<>>
    /\ pc[1].at = "parent"
    /\ held[Mutex("parent", pc[1].node)] = 0
    /\ nodes' = [nodes EXCEPT ![pc[1].node].parent = None]
    /\ IF nodes[pc[1].node].parent = None
       THEN /\ pc' = [pc EXCEPT ![1].at = "returned"]
            /\ UNCHANGED held
       ELSE /\ pc' = [pc EXCEPT ![1].at = "children",
                                ![1].parent = nodes[pc[1].node].parent]
            /\ held' = lock(held, Mutex("parent", pc[1].node), 1)
    /\ Threading

\* Node::unlink: let mut c = parent.children();
\* c.remove_index(c.position(self).unwrap()), then both guards are dropped;
\* a panic of the unwrap drops them too
Node_unlink_remove_index ==
    /\ pc # <<>>
    /\ pc[1].at = "children"
    /\ held[Mutex("children", pc[1].parent)] = 0
    /\ IF \E k \in DOMAIN nodes[pc[1].parent].children :
              nodes[pc[1].parent].children[k] = pc[1].node
       THEN /\ nodes' = [nodes EXCEPT ![pc[1].parent].children =
                            VecRemove(@, position(nodes, pc[1].parent,
                                                  pc[1].node) - 1)]
            /\ pc' = [pc EXCEPT ![1].at = "returned"]
       ELSE /\ pc' = [pc EXCEPT ![1].at = "panicked"]
            /\ UNCHANGED nodes
    /\ held' = unlock(held, Mutex("parent", pc[1].node))
    /\ Threading

\* Node::children(): the children mutex is locked and the guard is kept in
\* the Children; Children::remove starts with self.vec.remove(index), and
\* without a position of the child there is no call of remove
Node_children ==
    /\ pc # <<>>
    /\ pc[2].at = "children"
    /\ held[Mutex("children", pc[2].node)] = 0
    /\ IF pc[2].op # "remove"
       THEN /\ pc' = [pc EXCEPT ![2].at = "parent"]
            /\ held' = lock(held, Mutex("children", pc[2].node), 2)
            /\ UNCHANGED nodes
       ELSE IF \E k \in DOMAIN nodes[pc[2].node].children :
                  nodes[pc[2].node].children[k] = pc[2].child
       THEN /\ nodes' = [nodes EXCEPT ![pc[2].node].children =
                            VecRemove(@, position(nodes, pc[2].node,
                                                  pc[2].child) - 1)]
            /\ pc' = [pc EXCEPT ![2].at = "parent"]
            /\ held' = lock(held, Mutex("children", pc[2].node), 2)
       ELSE /\ pc' = [pc EXCEPT ![2].at = "not found"]
            /\ UNCHANGED <<nodes, held>>
    /\ Threading

\* Children::append and ::insert: child.parent().replace(self.node.downgrade());
\* Children::remove: node.value.parent.lock().take(), with the Children's
\* guard dropped after the call. The lock of the child's parent waits for a
\* holder, but the debug_assert of remove panics when it sees the mutex
\* locked
Children_child_parent ==
    /\ pc # <<>>
    /\ pc[2].at = "parent"
    /\ \/ /\ held[Mutex("parent", pc[2].child)] = 0
          /\ nodes' = [nodes EXCEPT ![pc[2].child].parent =
                          IF pc[2].op = "remove" THEN None ELSE pc[2].node]
          /\ IF pc[2].op = "remove"
             THEN /\ pc' = [pc EXCEPT ![2].at = "returned"]
                  /\ held' = unlock(held, Mutex("children", pc[2].node))
             ELSE IF pc[2].build = "debug" /\ nodes[pc[2].child].parent # None
             THEN /\ pc' = [pc EXCEPT ![2].at = "panicked"]
                  /\ held' = unlock(held, Mutex("children", pc[2].node))
             ELSE /\ pc' = [pc EXCEPT ![2].at = "push"]
                  /\ UNCHANGED held
       \/ /\ held[Mutex("parent", pc[2].child)] # 0
          /\ pc[2].op = "remove"
          /\ pc[2].build = "debug"
          /\ pc' = [pc EXCEPT ![2].at = "panicked"]
          /\ held' = unlock(held, Mutex("children", pc[2].node))
          /\ UNCHANGED nodes
    /\ Threading

\* Children::append: self.vec.push(child); Children::insert:
\* self.vec.insert(index, child); then the Children's guard is dropped
Children_push ==
    /\ pc # <<>>
    /\ pc[2].at = "push"
    /\ nodes' = [nodes EXCEPT ![pc[2].node].children =
                    IF pc[2].op = "append" THEN Append(@, pc[2].child)
                    ELSE VecInsert(@, 0, pc[2].child)]
    /\ pc' = [pc EXCEPT ![2].at = "returned"]
    /\ held' = unlock(held, Mutex("children", pc[2].node))
    /\ Threading

NextThreads ==
    \/ TreeBuilder_create_element
    \/ TreeBuilder_append_node
    \/ TreeSink_finish
    \/ Threads_call
    \/ Node_unlink_parent_take
    \/ Node_unlink_remove_index
    \/ Node_children
    \/ Children_child_parent
    \/ Children_push

SpecThreads == InitThreads /\ [][NextThreads]_vars

(***************************************************************************)
(* treedom::TreeDom: the arena mutex and the namespaces mutex              *)
(***************************************************************************)

\* the calls a thread makes on the TreeDom and its nodes
DomCalls == {"append", "detach", "value"}

\* a thread that makes the call op, with the guard of TreeDom::namespaces()
\* taken before the call and dropped after it, or without it
DomThread(op, guard) ==
    [at |-> IF guard THEN "namespaces" ELSE "call", op |-> op, guard |-> guard,
     node |-> None]

\* the mutexes of the TreeDom that thread t holds are unlocked
DropGuards(locks, t) == [m \in DOMAIN locks |-> IF locks[m] = t THEN 0 ELSE locks[m]]

\* the threads move; the sinks and the views are left alone
DomThreading ==
    UNCHANGED <<pre, last, calls, budget, sinkVars, attrVars, errors, lineno,
                out, driver, iter>>

\* two threads start, each with one call
DomThreads_call ==
    /\ pc = <<>>
    /\ len(vec) > 1
    /\ \E op1 \in DomCalls \ {"value"}, op2 \in DomCalls, guard1, guard2 \in BOOLEAN :
          pc' = <<DomThread(op1, guard1), DomThread(op2, guard2)>>
    /\ held' = [m \in {"tree", "namespaces"} |-> 0]
    /\ UNCHANGED <<vec, namespaces>>
    /\ DomThreading

\* TreeDom::namespaces(): the caller keeps the guard
TreeDom_namespaces ==
    /\ pc # <<>>
    /\ \E t \in DOMAIN pc :
          /\ pc[t].at = "namespaces"
          /\ held["namespaces"] = 0
          /\ held' = lock(held, "namespaces", t)
          /\ pc' = [pc EXCEPT ![t].at = "call"]
    /\ UNCHANGED <<vec, namespaces>>
    /\ DomThreading

\* TreeDom::append and TreeDom::detach, the block that locks the arena,
\* calls it and drops the guard
TreeDom_lock_tree ==
    /\ pc # <<>>
    /\ \E t \in DOMAIN pc :
          /\ pc[t].at = "call"
          /\ pc[t].op # "value"
          /\ held["tree"] = 0
          /\ \E parent \in Indexes(vec), node \in Indexes(vec),
                item_late \in BOOLEAN :
                /\ pc[t].op = "append" =>
                      /\ parent # node
                      /\ last_children(Get(vec, parent)) # node
                            => ~detach_item_panics(vec, node)
                      /\ vec' = append(vec, parent, node, item_late)
                /\ pc[t].op = "detach" =>
                      /\ parent = node
                      /\ ~detach_item_panics(vec, node)
                      /\ vec' = detach(vec, node, item_late)
                /\ pc' = [pc EXCEPT ![t].at = "value", ![t].node = node]
    /\ UNCHANGED <<held, namespaces>>
    /\ DomThreading

\* Node::value(): the arena is locked and the guard is kept by the caller:
\* by TreeDom::append and TreeDom::detach in val, or by the thread itself
Node_value ==
    /\ pc # <<>>
    /\ \E t \in DOMAIN pc :
          /\ \/ pc[t].at = "value"
             \/ pc[t].at = "call" /\ pc[t].op = "value"
          /\ held["tree"] = 0
          /\ held' = lock(held, "tree", t)
          /\ \E node \in Indexes(vec) :
                /\ pc[t].at = "value" => node = pc[t].node
                /\ pc' = [pc EXCEPT ![t].at = "val", ![t].node = node]
    /\ UNCHANGED <<vec, namespaces>>
    /\ DomThreading

\* the node of thread t is an Element with a prefix, so that TreeDom::append
\* and TreeDom::detach lock the namespaces
LocksNamespaces(t) ==
    /\ pc[t].op # "value"
    /\ Get(vec, pc[t].node).value.kind = "Element"
    /\ Get(vec, pc[t].node).value.prefix # NoneOption

\* the end of TreeDom::append and TreeDom::detach: with val held, the
\* namespaces are locked and changed for an Element with a prefix; then the
\* call returns and the guards of the thread are dropped
TreeDom_lock_namespaces ==
    /\ pc # <<>>
    /\ \E t \in DOMAIN pc :
          /\ pc[t].at = "val"
          /\ LocksNamespaces(t) => held["namespaces"] = 0
          /\ namespaces' =
                LET value == Get(vec, pc[t].node).value IN
                IF ~LocksNamespaces(t) THEN namespaces
                ELSE IF pc[t].op = "append"
                THEN HashMapInsert(namespaces, value.prefix[1], value.ns)
                ELSE HashMapRemove(namespaces, value.prefix[1])
          /\ held' = DropGuards(held, t)
          /\ pc' = [pc EXCEPT ![t].at = "returned"]
    /\ UNCHANGED vec
    /\ DomThreading

\* TreeDom::orphan before the threads start
DomThreads_orphan ==
    /\ pc = <<>>
    /\ TreeDom_orphan

NextDomThreads ==
    \/ DomThreads_orphan
    \/ DomThreads_call
    \/ TreeDom_namespaces
    \/ TreeDom_lock_tree
    \/ Node_value
    \/ TreeDom_lock_namespaces

SpecDomThreads == InitTreeDom /\ [][NextDomThreads]_vars

(***************************************************************************)
(* unitree::Index: the usize behind an Index, in the two copies of unitree *)
(***************************************************************************)

\* usize::MAX of a machine with a word of seven bits
UsizeMax == 127

MaxIndexNodes == 3

\* the two copies of the crate: src/unitree/lib.rs and src/unitree/src/lib.rs
Crates == {"unitree/lib.rs", "unitree/src/lib.rs"}

\* usize arithmetic that wraps, as in a build without overflow checks
WrappingUsize(n) == n % (UsizeMax + 1)

\* Index::into_usize(self) of src/unitree/src/lib.rs: self.0.get()
into_usize_src(i) == i

\* Index::into_usize of the crate, on a stored value that may be the 0 that
\* new_unchecked never should be given
IndexIntoUsize(crate, i) ==
    IF crate = "unitree/lib.rs" THEN WrappingUsize(into_usize(i))
    ELSE into_usize_src(i)

\* an outcome of a call: a panic, or the value returned
Outcome(panicked, value) == [panicked |-> panicked, value |-> value]

\* Index::new(n).into_usize(): n + 1 overflows for usize::MAX, which panics
\* with overflow checks and otherwise stores 0 in the NonZeroUsize
IndexRoundTrip(crate, n) ==
    IF n = UsizeMax
    THEN {Outcome(TRUE, 0), Outcome(FALSE, IndexIntoUsize(crate, WrappingUsize(n + 1)))}
    ELSE {Outcome(FALSE, IndexIntoUsize(crate, IndexNew(n)))}

\* the n of Index::new(n) is drawn; the arena is new
InitIndex ==
    /\ ArenaNew(0)
    /\ NoSink
    /\ impl \in Crates
    /\ elem = ElementDataNew(<<>>)
    /\ \E n \in 0..UsizeMax : read = Read("usize", n)
    /\ NoDom
    /\ NoRun

\* a call on the Index or on the arena of the crate
Indexed ==
    /\ impl \in Crates
    /\ UNCHANGED <<pre, last, calls, budget, sinkVars, attrVars, runVars,
                   namespaces, errors, lineno>>

\* Index::new(n).into_usize()
Index_new_into_usize ==
    /\ Indexed
    /\ out.what = "none"
    /\ \E o \in IndexRoundTrip(impl, read.result) :
          out' = Read("into_usize", o)
    /\ UNCHANGED vec

\* UNITree::orphan(value) and then UNITree::get of the Index it returned:
\* the place pushed to, and the place in the vector that get reads (a place
\* beyond the vector gives None)
UNITree_orphan_get ==
    /\ Indexed
    /\ len(vec) < MaxIndexNodes
    /\ vec' = orphan(vec, "v")
    /\ out' = Read("orphan", [pushed |-> len(vec),
                              got |-> IndexIntoUsize(impl, orphan_index(vec))])

\* UNITree::root(): get_unchecked(Index::default().into_usize())
UNITree_root ==
    /\ Indexed
    /\ out.what # "root"
    /\ out' = Read("root", [got |-> IndexIntoUsize(impl, IndexDefault)])
    /\ UNCHANGED vec

NextIndex ==
    \/ Index_new_into_usize
    \/ UNITree_orphan_get
    \/ UNITree_root

SpecIndex == InitIndex /\ [][NextIndex]_vars

(***************************************************************************)
(* Claims about the arena's links                                          *)
(***************************************************************************)

\* C1: after calls that meet the stated preconditions, every node whose
\* parent field is p is reached exactly once when p's child list is walked
\* from its first child along next_sibling to its last child.
C1_ChildReachedOnce ==
    pre => \A n \in Indexes(vec) :
              Get(vec, n).parent # None =>
                  Count(ChildList(vec, Get(vec, n).parent), n) = 1

\* C2: after calls that meet the stated preconditions, sibling pointers are
\* symmetric: prev_sibling(n) = m gives next_sibling(m) = n, and
\* next_sibling(n) = m gives prev_sibling(m) = n.
C2_SiblingsSymmetric ==
    pre => \A n \in Indexes(vec) :
              /\ Get(vec, n).prev_sibling # None =>
                    Get(vec, Get(vec, n).prev_sibling).next_sibling = n
              /\ Get(vec, n).next_sibling # None =>
                    Get(vec, Get(vec, n).next_sibling).prev_sibling = n

\* C3: after calls that meet the stated preconditions, every sibling list is
\* acyclic and terminated: no node is its own previous or next sibling, a
\* first child has no prev_sibling, a last child has no next_sibling, and
\* the walk from the first child reaches the last child.
C3_SiblingListsTerminated ==
    pre => \A n \in Indexes(vec) :
              LET it == Get(vec, n) IN
              /\ it.prev_sibling # n
              /\ it.next_sibling # n
              /\ it.children # NoChildren =>
                    /\ Get(vec, it.children[1]).prev_sibling = None
                    /\ Get(vec, it.children[2]).next_sibling = None
                    /\ it.children[2] \in Range(ChildList(vec, n))

\* C4: append, prepend, insert_before and insert_after reject every call
\* that would make a node its own parent or put it inside its own
\* descendants, so after any calls no node is its own ancestor.
C4_NoNodeIsItsOwnAncestor ==
    pre => \A n \in Indexes(vec) : n \notin Ancestors(vec, n, len(vec))

\* C5: each node is in at most one child list, and every node found in p's
\* child list has p as its parent field.
C5_OneChildListPerNode ==
    pre => /\ \A n \in Indexes(vec) :
                Cardinality({p \in Indexes(vec) :
                                n \in Range(ChildList(vec, p))}) <= 1
           /\ \A p \in Indexes(vec) :
                \A n \in Range(ChildList(vec, p)) : Get(vec, n).parent = p

(***************************************************************************)
(* Claims about single calls                                               *)
(***************************************************************************)

\* the sequence s without n
Without(s, n) == SelectSeq(s, LAMBDA e : e # n)

\* the sequence s with x put directly before its element at
InsertedBefore(s, at, x) ==
    LET k == CHOOSE j \in DOMAIN s : s[j] = at
    IN  SubSeq(s, 1, k - 1) \o <<x>> \o SubSeq(s, k, Len(s))

\* C6: reparent_append(new_parent, n) with new_parent # n, called on a
\* well-formed arena with new_parent outside n's subtree, moves all children
\* of n in their order to the end of new_parent's child list, leaves n
\* without children, and gives every moved child parent = new_parent.
C6_ReparentAppendMovesAll ==
    [][\A new_parent \in Indexes(vec), index \in Indexes(vec) :
          ( /\ last'.op = "reparent_append"
            /\ new_parent # index
            /\ vec' = reparent_append(vec, new_parent, index)
            /\ index \notin Ancestors(vec, new_parent, len(vec))
            /\ pre /\ WellFormed(vec) )
          => /\ ChildList(vec', new_parent)
                    = ChildList(vec, new_parent) \o ChildList(vec, index)
             /\ Get(vec', index).children = NoChildren
             /\ \A c \in Range(ChildList(vec, index)) :
                    Get(vec', c).parent = new_parent
      ]_vars

\* C7: insert_before(sibling, node) with sibling attached and
\* node # sibling, called on a well-formed arena with node not an ancestor of
\* sibling, makes node the immediate previous sibling of sibling under
\* sibling's parent, whatever node's position was before.
C7_InsertBeforeAnyPosition ==
    [][\A index \in Indexes(vec), x \in Indexes(vec), item_late \in BOOLEAN :
          ( /\ last'.op = "insert_before"
            /\ index # x
            /\ Get(vec, index).parent # None
            /\ ~insert_panics(vec, index, x, item_late)
            /\ vec' = insert_before(vec, index, x, item_late)
            /\ x \notin Ancestors(vec, index, len(vec))
            /\ pre /\ WellFormed(vec) )
          => LET p == Get(vec, index).parent IN
             /\ Get(vec', x).parent = p
             /\ Get(vec', index).prev_sibling = x
             /\ Get(vec', x).next_sibling = index
             /\ ChildList(vec', p)
                    = InsertedBefore(Without(ChildList(vec, p), x), index, x)
      ]_vars

\* C10: detach(node) leaves node without parent, prev_sibling and
\* next_sibling, keeps node's own children, links the former previous and
\* next siblings to each other, takes node out of the former parent's child
\* list, and changes no other link; on a node without parent it changes
\* nothing.
C10_DetachFrame ==
    [][\A index \in Indexes(vec), item_late \in BOOLEAN :
          ( /\ last'.op = "detach"
            /\ ~detach_item_panics(vec, index)
            /\ vec' = detach(vec, index, item_late)
            /\ pre )
          => LET it == Get(vec, index) IN
             /\ it.parent = None => vec' = vec
             /\ Get(vec', index).parent = None
             /\ Get(vec', index).prev_sibling = None
             /\ Get(vec', index).next_sibling = None
             /\ Get(vec', index).children = it.children
             /\ it.prev_sibling # None =>
                    Get(vec', it.prev_sibling).next_sibling = it.next_sibling
             /\ it.next_sibling # None =>
                    Get(vec', it.next_sibling).prev_sibling = it.prev_sibling
             /\ it.parent # None =>
                    ChildList(vec', it.parent)
                        = Without(ChildList(vec, it.parent), index)
             /\ \A m \in Indexes(vec) \ {index} :
                    /\ Get(vec', m).parent = Get(vec, m).parent
                    /\ Get(vec', m).value = Get(vec, m).value
                    /\ m # it.parent =>
                          Get(vec', m).children = Get(vec, m).children
                    /\ m # it.next_sibling =>
                          Get(vec', m).prev_sibling = Get(vec, m).prev_sibling
                    /\ m # it.prev_sibling =>
                          Get(vec', m).next_sibling = Get(vec, m).next_sibling
      ]_vars

\* detach as C10 states it, on a well-formed arena
C10_DetachFrameWellFormed ==
    [][\A index \in Indexes(vec), item_late \in BOOLEAN :
          ( /\ last'.op = "detach"
            /\ ~detach_item_panics(vec, index)
            /\ vec' = detach(vec, index, item_late)
            /\ WellFormed(vec) )
          => LET it == Get(vec, index) IN
             /\ it.parent = None => vec' = vec
             /\ Get(vec', index).parent = None
             /\ Get(vec', index).prev_sibling = None
             /\ Get(vec', index).next_sibling = None
             /\ Get(vec', index).children = it.children
             /\ it.parent # None =>
                    ChildList(vec', it.parent)
                        = Without(ChildList(vec, it.parent), index)
             /\ WellFormed(vec')
      ]_vars

(***************************************************************************)
(* Claims about the tree sinks and the attribute caches                    *)
(***************************************************************************)

\* what append(parent, text) is to make of the sequence of the parent's
\* children, given their data before and after and the number of nodes
\* before and after
AppendTextPost(before, after, count_before, count_after, text) ==
    IF before # <<>> /\ before[Len(before)].kind = "Text"
    THEN /\ count_after = count_before
         /\ after = [before EXCEPT ![Len(before)].contents = @ \o text]
    ELSE /\ count_after = count_before + 1
         /\ after = Append(before, [kind |-> "Text", contents |-> text])

\* what Parser's append(parent, text) is to make of the arena t, read through
\* the parent's last child: t2 is the arena after the call
ParserAppendTextPost(t, t2, parent, text) ==
    LET last_index == last_children(Get(t, parent))
        new_index == orphan_index(t)
    IN  /\ \A n \in Indexes(t) \ {last_index} : Get(t2, n).value = Get(t, n).value
        /\ IF last_index # None /\ is_text(Get(t, last_index).value)
           THEN /\ len(t2) = len(t)
                /\ last_children(Get(t2, parent)) = last_index
                /\ Get(t2, last_index).value
                      = TextData(Get(t, last_index).value.contents \o text)
           ELSE /\ len(t2) = len(t) + 1
                /\ last_children(Get(t2, parent)) = new_index
                /\ Get(t2, new_index).value = TextData(text)
                /\ Get(t2, new_index).parent = parent
                /\ Get(t2, new_index).prev_sibling = last_index
                /\ Get(t2, new_index).next_sibling = None
                /\ last_index # None =>
                      /\ Get(t2, last_index).next_sibling = new_index
                      /\ Get(t2, last_index).value = Get(t, last_index).value
                /\ last_index = None =>
                      first_children(Get(t2, parent)) = new_index

\* the data of the parent's last child in the driven sink
LastKid(t, h, parent) ==
    IF sink = "Parser" THEN Get(t, last_children(Get(t, parent))).value
    ELSE h[h[parent].children[Len(h[parent].children)]].data

\* the parent has a last child in the driven sink
HasKids(t, h, parent) ==
    IF sink = "Parser" THEN Get(t, parent).children # NoChildren
    ELSE h[parent].children # <<>>

\* the number of nodes of the driven sink
NodeCount(t, h) == IF sink = "Parser" THEN len(t) ELSE Len(h)

\* C8: tree-sink append(parent, text), in Parser and in TreeBuilder: when
\* the parent's last child is a Text node its contents are extended in place
\* and no node is added, otherwise exactly one new Text node holding the text
\* becomes the parent's last child; so "lo" appended right after "Hel" under
\* the same parent extends that one Text node, "Hel" becoming "Hello".
\* For Parser the parent's last child is the one its children pair names;
\* where the arena is well formed the same is said of the whole child list.
C8_AppendTextCoalesces ==
    [][slast'.op = "append_text" =>
          /\ sink = "Parser" =>
                /\ ParserAppendTextPost(tree, tree', slast'.parent, slast'.text)
                /\ WellFormed(tree) =>
                      AppendTextPost(ParserKids(tree, slast'.parent),
                                     ParserKids(tree', slast'.parent),
                                     len(tree), len(tree'), slast'.text)
          /\ sink = "TreeBuilder" =>
                AppendTextPost(TreeBuilderKids(nodes, slast'.parent),
                               TreeBuilderKids(nodes', slast'.parent),
                               Len(nodes), Len(nodes'), slast'.text)
          /\ ( /\ slast.op = "append_text"
               /\ slast.parent = slast'.parent
               /\ slast.text = "Hel"
               /\ slast'.text = "lo"
               /\ HasKids(tree, nodes, slast'.parent)
               /\ LastKid(tree, nodes, slast'.parent) = TextData("Hel") )
             => /\ NodeCount(tree', nodes') = NodeCount(tree, nodes)
                /\ LastKid(tree', nodes', slast'.parent) = TextData("Hello")
      ]_vars

\* "Hel" then "lo" were appended under a parent without children: it has one
\* child, a Text node holding "Hello"
C8_HelloWitness ==
    /\ slast.op = "append_text"
    /\ slast.text = "lo"
    /\ sink = "Parser"
    /\ ParserKids(tree, slast.parent) = <<[kind |-> "Text", contents |-> "Hello"]>>
    /\ len(tree) = 2

\* the value of the first attribute whose local name is "id", or none
ExpectedId(attrs) ==
    LET ids == SelectSeq(attrs, LAMBDA a : a[1] = "id")
    IN  IF ids = <<>> THEN <<>> ELSE <<ids[1][2]>>

\* the tokens of s: its longest runs without a space
Tokens(s) ==
    LET n == Len(s)
        ch(k) == SubSeq(s, k, k)
    IN  {SubSeq(s, r[1], r[2]) :
            r \in {q \in (1..n) \X (1..n) :
                     /\ q[1] <= q[2]
                     /\ \A k \in q[1]..q[2] : ch(k) # " "
                     /\ (q[1] = 1 \/ ch(q[1] - 1) = " ")
                     /\ (q[2] = n \/ ch(q[2] + 1) = " ")}}

\* the tokens of the attributes whose local name is "class"
ClassSet(attrs) ==
    UNION {Tokens(attrs[k][2]) : k \in {j \in DOMAIN attrs : attrs[j][1] = "class"}}

\* seq lists exactly the set S, in increasing order and without repetition
SortedListOf(seq, S) ==
    /\ Range(seq) = S
    /\ Len(seq) = Cardinality(S)
    /\ \A k \in 1..(Len(seq) - 1) : StrLess(seq[k], seq[k + 1])

\* C9: whatever mutations of the attributes came before, through whichever
\* public path, a read of id returns the value of the first attribute named
\* "id" (or none) and a read of classes returns the sorted de-duplicated
\* tokens of the attributes named "class", both as the attributes are now.
C9_ReadsAreCurrent ==
    /\ read.what = "id" => read.result = ExpectedId(elem.attrs)
    /\ read.what = "classes" => SortedListOf(read.result, ClassSet(elem.attrs))

(***************************************************************************)
(* Claims about append, prepend, insert_after and reparent_prepend         *)
(***************************************************************************)

\* C11: for a node n without parent and a node p # n, after calls that meet
\* the stated preconditions, append(p, n) followed by detach(n) leaves the
\* parent, prev_sibling, next_sibling and children of every node as they
\* were before the append.
C11_AppendThenDetachRestores ==
    [][\A p \in Indexes(vec), n \in Indexes(vec), item_late \in BOOLEAN :
          ( /\ last'.op = "append"
            /\ p # n
            /\ Get(vec, n).parent = None
            /\ vec' = append(vec, p, n, item_late)
            /\ pre )
          => /\ ~detach_item_panics(vec', n)
             /\ \A late \in BOOLEAN : Links(detach(vec', n, late)) = Links(vec)
      ]_vars

\* C11 where the arena before the append is well formed and n is not above p
C11_AppendThenDetachRestoresWellFormed ==
    [][\A p \in Indexes(vec), n \in Indexes(vec), item_late \in BOOLEAN :
          ( /\ last'.op = "append"
            /\ p # n
            /\ Get(vec, n).parent = None
            /\ vec' = append(vec, p, n, item_late)
            /\ n \notin Ancestors(vec, p, len(vec))
            /\ pre /\ WellFormed(vec) )
          => /\ ~detach_item_panics(vec', n)
             /\ \A late \in BOOLEAN : Links(detach(vec', n, late)) = Links(vec)
      ]_vars

\* what append (at_end) or prepend of child under parent is to make of the
\* arena v: w is the arena after the call
AppendPost(v, w, parent_index, child_index, at_end) ==
    LET others == Without(ChildList(v, parent_index), child_index) IN
    /\ Get(w, child_index).parent = parent_index
    /\ ChildList(w, parent_index)
           = IF at_end THEN others \o <<child_index>>
             ELSE <<child_index>> \o others
    /\ at_end =>
           /\ last_children(Get(w, parent_index)) = child_index
           /\ Get(w, child_index).next_sibling = None
    /\ ~at_end =>
           /\ first_children(Get(w, parent_index)) = child_index
           /\ Get(w, child_index).prev_sibling = None
    /\ \A q \in Indexes(v) \ {parent_index} :
           ChildList(w, q) = Without(ChildList(v, q), child_index)

\* C12: after calls that meet the stated preconditions, append(parent, child)
\* makes child the last and prepend(parent, child) the first child of parent,
\* for a child that is not above parent: the parent field of child is
\* parent, child is at that end of parent's child list, the other children
\* keep their order, and child is in no other place: not a second time under
\* parent, under no other node.
C12_AppendLastPrependFirst ==
    [][\A parent_index \in Indexes(vec), child_index \in Indexes(vec),
          item_late \in BOOLEAN :
          ( /\ last'.op \in {"append", "prepend"}
            /\ parent_index # child_index
            /\ vec' = IF last'.op = "append"
                      THEN append(vec, parent_index, child_index, item_late)
                      ELSE prepend(vec, parent_index, child_index, item_late)
            /\ child_index \notin Ancestors(vec, parent_index, len(vec))
            /\ pre )
          => AppendPost(vec, vec', parent_index, child_index, last'.op = "append")
      ]_vars

\* C12 where the arena before the call is well formed
C12_AppendLastPrependFirstWellFormed ==
    [][\A parent_index \in Indexes(vec), child_index \in Indexes(vec),
          item_late \in BOOLEAN :
          ( /\ last'.op \in {"append", "prepend"}
            /\ parent_index # child_index
            /\ vec' = IF last'.op = "append"
                      THEN append(vec, parent_index, child_index, item_late)
                      ELSE prepend(vec, parent_index, child_index, item_late)
            /\ child_index \notin Ancestors(vec, parent_index, len(vec))
            /\ pre /\ WellFormed(vec) )
          => AppendPost(vec, vec', parent_index, child_index, last'.op = "append")
      ]_vars

\* the sequence s with x put directly after its element at
InsertedAfter(s, at, x) ==
    LET k == CHOOSE j \in DOMAIN s : s[j] = at
    IN  SubSeq(s, 1, k) \o <<x>> \o SubSeq(s, k + 1, Len(s))

\* C13: insert_after(sibling, node) with sibling attached and
\* node # sibling, called on a well-formed arena with node not an ancestor of
\* sibling, makes node the immediate next sibling of sibling under sibling's
\* parent, whatever node's position was before, and the parent's last child
\* when sibling was the last.
C13_InsertAfterAnyPosition ==
    [][\A index \in Indexes(vec), x \in Indexes(vec), item_late \in BOOLEAN :
          ( /\ last'.op = "insert_after"
            /\ index # x
            /\ Get(vec, index).parent # None
            /\ ~insert_panics(vec, index, x, item_late)
            /\ vec' = insert_after(vec, index, x, item_late)
            /\ x \notin Ancestors(vec, index, len(vec))
            /\ pre /\ WellFormed(vec) )
          => LET p == Get(vec, index).parent IN
             /\ Get(vec', x).parent = p
             /\ Get(vec', index).next_sibling = x
             /\ Get(vec', x).prev_sibling = index
             /\ ChildList(vec', p)
                    = InsertedAfter(Without(ChildList(vec, p), x), index, x)
             /\ Without(ChildList(vec, p), x)[Len(Without(ChildList(vec, p), x))]
                    = index
                  => last_children(Get(vec', p)) = x
      ]_vars

\* C14: reparent_prepend(new_parent, n) with new_parent # n, called on a
\* well-formed arena with new_parent outside n's subtree, moves all children
\* of n in their order to the front of new_parent's child list, ahead of its
\* own children in their order, leaves n without children, and gives every
\* moved child parent = new_parent.
C14_ReparentPrependMovesAll ==
    [][\A new_parent \in Indexes(vec), index \in Indexes(vec) :
          ( /\ last'.op = "reparent_prepend"
            /\ new_parent # index
            /\ vec' = reparent_prepend(vec, new_parent, index)
            /\ index \notin Ancestors(vec, new_parent, len(vec))
            /\ pre /\ WellFormed(vec) )
          => /\ ChildList(vec', new_parent)
                    = ChildList(vec, index) \o ChildList(vec, new_parent)
             /\ Get(vec', index).children = NoChildren
             /\ \A c \in Range(ChildList(vec, index)) :
                    Get(vec', c).parent = new_parent
      ]_vars

(***************************************************************************)
(* Claims about append_before_sibling and remove_from_parent               *)
(***************************************************************************)

\* what Parser's append_before_sibling(sibling, text) is to make of the
\* arena t: t2 is the arena after the call
ParserAppendBeforeSiblingTextPost(t, t2, sibling, text) ==
    LET prev_index == Get(t, sibling).prev_sibling
        parent_index == Get(t, sibling).parent
        new_index == orphan_index(t)
    IN  /\ \A n \in Indexes(t) \ {prev_index} : Get(t2, n).value = Get(t, n).value
        /\ IF prev_index # None /\ is_text(Get(t, prev_index).value)
           THEN /\ len(t2) = len(t)
                /\ Links(t2) = Links(t)
                /\ Get(t2, prev_index).value
                      = TextData(Get(t, prev_index).value.contents \o text)
           ELSE /\ len(t2) = len(t) + 1
                /\ Get(t2, new_index).value = TextData(text)
                /\ Get(t2, new_index).parent = parent_index
                /\ Get(t2, new_index).next_sibling = sibling
                /\ Get(t2, new_index).prev_sibling = prev_index
                /\ Get(t2, sibling).prev_sibling = new_index
                /\ prev_index # None =>
                      /\ Get(t2, prev_index).next_sibling = new_index
                      /\ Get(t2, prev_index).value = Get(t, prev_index).value
                /\ first_children(Get(t, parent_index)) = sibling =>
                      first_children(Get(t2, parent_index)) = new_index
                /\ ChildList(t2, parent_index)
                      = InsertedBefore(ChildList(t, parent_index), sibling, new_index)

\* what append_before_sibling(sibling, text) of TreeBuilder and of ArcDom is
\* to make of the nodes h: h2 is the nodes after the call
NodesAppendBeforeSiblingTextPost(h, h2, sibling, text) ==
    LET parent == h[sibling].parent
        c == h[parent].children
        k == position(h, parent, sibling)
    IN  IF k > 1 /\ is_text(h[c[k - 1]].data)
        THEN /\ Len(h2) = Len(h)
             /\ h2 = [h EXCEPT ![c[k - 1]].data = TextData(@.contents \o text)]
        ELSE /\ Len(h2) = Len(h) + 1
             /\ h2[Len(h2)].data = TextData(text)
             /\ h2[Len(h2)].parent = parent
             /\ h2[parent].children = InsertedBefore(c, sibling, Len(h2))
             /\ \A n \in DOMAIN h : h2[n].data = h[n].data

\* C15: tree-sink append_before_sibling(sibling, text), in Parser, in
\* TreeBuilder and in ArcDom, returns, and when sibling has a previous
\* sibling that is a Text node that node is extended with the text and no
\* node is added, otherwise exactly one new Text node holding the text is
\* put directly before sibling.
C15_AppendTextBeforeSibling ==
    [][slast'.op = "append_before_sibling_text" =>
          /\ slast'.returned
          /\ sink = "Parser" =>
                ParserAppendBeforeSiblingTextPost(tree, tree', slast'.sibling,
                                                  slast'.text)
          /\ sink # "Parser" =>
                NodesAppendBeforeSiblingTextPost(nodes, nodes', slast'.sibling,
                                                 slast'.text)
      ]_vars

\* C16: tree-sink append_before_sibling(sibling, node), in Parser, in
\* TreeBuilder and in ArcDom, for a node that is not above sibling, returns
\* with node detached from the parent it had (sibling's own parent included)
\* and put directly before sibling: node is exactly once in the tree,
\* directly before sibling, with sibling's parent as its parent.
C16_AppendNodeBeforeSibling ==
    [][slast'.op = "append_before_sibling_node" =>
          LET sibling == slast'.sibling
              node == slast'.node
          IN  /\ slast'.returned
              /\ sink = "Parser" =>
                    LET p == Get(tree, sibling).parent IN
                    /\ Get(tree', node).parent = p
                    /\ Get(tree', node).next_sibling = sibling
                    /\ Get(tree', sibling).prev_sibling = node
                    /\ ChildList(tree', p)
                          = InsertedBefore(Without(ChildList(tree, p), node),
                                           sibling, node)
                    /\ \A q \in Indexes(tree) \ {p} :
                          ChildList(tree', q) = Without(ChildList(tree, q), node)
              /\ sink # "Parser" =>
                    LET p == nodes[sibling].parent IN
                    /\ nodes'[node].parent = p
                    /\ nodes'[p].children
                          = InsertedBefore(Without(nodes[p].children, node),
                                           sibling, node)
                    /\ \A q \in DOMAIN nodes \ {p} :
                          nodes'[q].children = Without(nodes[q].children, node)
      ]_vars

\* C17: tree-sink remove_from_parent(t), in Parser, in TreeBuilder and in
\* ArcDom, returns with t detached: t has no parent and is no longer in the
\* child list of the parent it had, whose other children are as they were
\* and in their order; for a t without parent nothing changes.
C17_RemoveFromParentDetaches ==
    [][slast'.op = "remove_from_parent" =>
          LET t == slast'.node IN
          /\ slast'.returned
          /\ sink = "Parser" =>
                LET p == Get(tree, t).parent IN
                /\ Get(tree', t).parent = None
                /\ p = None => tree' = tree
                /\ p # None =>
                      ChildList(tree', p) = Without(ChildList(tree, p), t)
          /\ sink # "Parser" =>
                LET p == nodes[t].parent IN
                /\ nodes'[t].parent = None
                /\ p = None => nodes' = nodes
                /\ p # None =>
                      nodes'[p].children = Without(nodes[p].children, t)
      ]_vars

(***************************************************************************)
(* Claims about the attribute list of an element                           *)
(***************************************************************************)

\* the names of a list of attributes
QNames(attrs) == {attrs[k][1] : k \in DOMAIN attrs}

SortedByQName(attrs) ==
    \A i, j \in DOMAIN attrs : i < j => ~StrLess(attrs[j][1], attrs[i][1])

NoDuplicateQName(attrs) ==
    \A i, j \in DOMAIN attrs : attrs[i][1] = attrs[j][1] => i = j

\* the attributes of one name, in the order of the list
Named(attrs, q) == SelectSeq(attrs, LAMBDA a : a[1] = q)

\* C18: add_attrs_if_missing(t, attrs), on an element with one attribute per
\* name, adds exactly the attributes whose name the element does not have yet:
\* an attribute whose name is already there keeps its value and gets no second
\* entry, a new name gets one entry with a value given for it, and the element
\* has at most one attribute per name afterwards.
C18_AddAttrsIfMissing ==
    [][(/\ read'.what = "add_attrs_if_missing"
        /\ NoDuplicateQName(read'.result[1]))
       => LET before == read'.result[1]
              given == read'.result[2]
              after == elem'.attrs
          IN  /\ NoDuplicateQName(after)
              /\ QNames(after) = QNames(before) \cup QNames(given)
              /\ \A q \in QNames(before) : Named(after, q) = Named(before, q)
              /\ \A q \in QNames(given) \ QNames(before) :
                    \E k \in DOMAIN given : Named(after, q) = <<given[k]>>]_vars

\* C19: the element create_element returns has its attributes sorted by name
\* and no two of them share a name, whatever attributes were given; of the
\* given attributes of one name the first is the one kept.
C19_CreateElementSortedDeduplicated ==
    [][read'.what = "create_element"
       => LET given == read'.result[2]
              after == elem'.attrs
          IN  /\ SortedByQName(after)
              /\ NoDuplicateQName(after)
              /\ QNames(after) = QNames(given)
              /\ \A q \in QNames(given) :
                    Named(after, q) = <<Head(Named(given, q))>>]_vars

\* C20: after every public mutation of an element's attributes (push, insert,
\* item assignment, remove, swap_remove, reverse) on a list that was sorted by
\* name and free of duplicate names, the list is again sorted by name and free
\* of duplicate names.
C20_MutationsKeepSortedDeduplicated ==
    [][(/\ read'.what \in {"push", "insert", "setitem", "update_value",
                           "remove", "swap_remove", "reverse"}
        /\ SortedByQName(read'.result[1])
        /\ NoDuplicateQName(read'.result[1]))
       => /\ SortedByQName(elem'.attrs)
          /\ NoDuplicateQName(elem'.attrs)]_vars

(***************************************************************************)
(* Claims about the TreeDom's namespaces                                   *)
(***************************************************************************)

\* C21: the prefix-to-namespace map of the tree only grows: a prefix that has
\* an entry still has one after every later operation on the tree (append,
\* prepend, insert, detach, reparent).
C21_NamespacesOnlyGrow ==
    [][\A e \in namespaces : \E f \in namespaces' : f[1] = e[1]]_vars

(***************************************************************************)
(* Claims about append_doctype_to_document and parse_error                 *)
(***************************************************************************)

\* C22: append_doctype_to_document creates a Doctype node and makes it the
\* last child of the document root, after every child the root already has.
C22_DoctypeBecomesLastChild ==
    [][slast'.op = "append_doctype_to_document"
       => IF sink = "Parser"
          THEN /\ Get(tree', slast'.node).value.kind = "Doctype"
               /\ Get(tree', slast'.node).parent = IndexDefault
               /\ last_children(Get(tree', IndexDefault)) = slast'.node
               /\ Get(tree, IndexDefault).children # NoChildren
                     => Get(tree', slast'.node).prev_sibling
                            = last_children(Get(tree, IndexDefault))
          ELSE /\ nodes'[slast'.node].data.kind = "Doctype"
               /\ nodes'[slast'.node].parent = 1
               /\ nodes'[1].children = Append(nodes[1].children, slast'.node)
      ]_vars

\* the line passed to the most recent set_current_line, the initial 0 if
\* there was none
CurrentLine == IF out.what = "set_current_line" THEN out.result[1] ELSE 0

\* C23: every parse_error(msg) appends the pair (msg, current_line) to the
\* error list, current_line being the value passed to the most recent
\* set_current_line (the initial value if there was none); the earlier
\* entries stay, in call order.
C23_ParseErrorRecordsLine ==
    [][slast'.op = "parse_error"
       => errors' = Append(errors, <<slast'.text, CurrentLine>>)]_vars

(***************************************************************************)
(* Claims about the arena's indexes                                        *)
(***************************************************************************)

\* C24: node ids are monotonic and never reused: orphan returns an index
\* greater than every index returned before, under which get answers the new
\* item; no call frees an item, and get(id) keeps answering the value that
\* was allocated under the id after every mutator, detach included.
C24_IdsMonotonicNeverReused ==
    [][/\ \A i \in Indexes(vec) :
             /\ i \in Indexes(vec')
             /\ Get(vec', i).value = Get(vec, i).value
       /\ last'.op = "orphan"
             => LET index == out'.result[1] IN
                /\ index \notin Indexes(vec)
                /\ \A i \in Indexes(vec) : i < index
                /\ index \in Indexes(vec')
                /\ Get(vec', index) = ItemNew(out'.result[2])
      ]_vars

\* three nodes were allocated, the last under the greatest index, and a
\* node was detached afterwards
C24_DetachedWitness ==
    /\ last.op = "detach"
    /\ len(vec) = 3
    /\ out.what = "orphan"
    /\ out.result[1] = IndexNew(2)
    /\ Get(vec, out.result[1]).value = out.result[2]
    /\ \E i \in Indexes(vec) : i # IndexDefault /\ Get(vec, i).parent = None


(***************************************************************************)
(* Claims about iteration, selection and serialization                     *)
(***************************************************************************)

\* the positions to take from the document down to n, one for each level
RECURSIVE DocPath(_, _, _)
DocPath(h, n, fuel) ==
    IF h[n].parent = None \/ fuel = 0 THEN <<>>
    ELSE Append(DocPath(h, h[n].parent, fuel - 1), position(h, h[n].parent, n))

\* path a is before path b: a node is before the nodes below it, and a
\* child is before the children after it and the nodes below them
RECURSIVE PathBefore(_, _)
PathBefore(a, b) ==
    IF a = <<>> THEN b # <<>>
    ELSE IF b = <<>> THEN FALSE
    ELSE IF a[1] # b[1] THEN a[1] < b[1]
    ELSE PathBefore(Tail(a), Tail(b))

\* a is before b in document order
Before(h, a, b) == PathBefore(DocPath(h, a, Len(h)), DocPath(h, b, Len(h)))

\* s holds each node of the set S once, in document order
InDocumentOrder(h, s, S) ==
    /\ Range(s) = S
    /\ \A j, k \in DOMAIN s : j < k => Before(h, s[j], s[k])

RECURSIVE TreePath(_, _, _)
TreePath(t, n, fuel) ==
    IF Get(t, n).parent = None \/ fuel = 0 THEN <<>>
    ELSE Append(TreePath(t, Get(t, n).parent, fuel - 1),
                CHOOSE k \in DOMAIN ChildList(t, Get(t, n).parent) :
                    ChildList(t, Get(t, n).parent)[k] = n)

\* s holds each index of the set S once, in the document order of the arena
InTreeOrder(t, s, S) ==
    /\ Range(s) = S
    /\ \A j, k \in DOMAIN s :
          j < k => PathBefore(TreePath(t, s[j], len(t)), TreePath(t, s[k], len(t)))

\* C26: iterating the subtree of a node visits every node of the subtree
\* once, a node before its children and the children from the first to the
\* last, and the iteration ends; for a NodesTree the subtree holds the node
\* itself when include_node is given.
C26_IterationIsPreOrder ==
    /\ out.what = "NodesTree" =>
          InDocumentOrder(nodes, out.result.visited,
              {n \in DOMAIN nodes :
                  \/ out.result.node \in parents(nodes, n, Len(nodes))
                  \/ out.result.include_node /\ n = out.result.node})
    /\ out.what = "Traverse" =>
          /\ Len(out.result.edges) <= 2 * len(tree)
          /\ InTreeOrder(tree, Opened(out.result.edges),
                 {n \in Indexes(tree) :
                     \/ n = out.result.node
                     \/ out.result.node \in Ancestors(tree, n, len(tree))})


\* the children of n's parent in their order, of the tree the sink built
Siblings(n) ==
    IF sink = "TreeBuilder"
    THEN IF nodes[n].parent = None THEN <<n>>
         ELSE nodes[nodes[n].parent].children
    ELSE IF Get(tree, n).parent = None THEN <<n>>
         ELSE ChildList(tree, Get(tree, n).parent)

\* n is an Element of the tree the sink built
IsElement(n) ==
    IF sink = "TreeBuilder" THEN is_element(nodes, n)
    ELSE Get(tree, n).value.kind = "Element"

\* the Element among n's siblings that is the closest one on the side of
\* n that the positions of the set Side are on, or None
Nearest(n, Side(_, _), Closer(_, _)) ==
    LET s == Siblings(n)
        at == CHOOSE k \in DOMAIN s : s[k] = n
        E == {j \in DOMAIN s : Side(j, at) /\ IsElement(s[j])}
    IN  IF E = {} THEN None
        ELSE s[CHOOSE j \in E : \A i \in E : i = j \/ Closer(j, i)]

\* position j is before position k, position j is after position k
Lower(j, k) == j < k
Higher(j, k) == j > k

\* C27: prev_sibling_element returns the closest sibling before the node
\* that is an Element and next_sibling_element the closest one after it,
\* and each returns none when there is no such sibling.
C27_NearestSiblingElement ==
    /\ out.what = "prev_sibling_element" =>
          out.result.found = Nearest(out.result.node, Lower, Higher)
    /\ out.what = "next_sibling_element" =>
          out.result.found = Nearest(out.result.node, Higher, Lower)


\* the data of the children of n, of the tree the sink built
ChildrenData(n) ==
    IF sink = "TreeBuilder" THEN Range(TreeBuilderKids(nodes, n))
    ELSE Range(ParserKids(tree, n))

\* C28: is_empty of an Element is true exactly when none of its children is
\* an Element or a Text node, whatever the nodes are that are not its
\* children.
C28_IsEmptyLooksAtChildren ==
    out.what = "is_empty" =>
        (out.result.empty
            <=> \A d \in ChildrenData(out.result.node) :
                    d.kind \notin {"Element", "Text"})


\* the events of a node and of the nodes below it: an Element is written as
\* its start, its children and its end, and a leaf as one event
RECURSIVE EventsOf(_, _)
RECURSIVE EventsOfAll(_, _)
EventsOf(h, n) ==
    IF h[n].data.kind = "Element"
    THEN <<Event("start_elem", n)>> \o EventsOfAll(h, h[n].children)
             \o <<Event("end_elem", n)>>
    ELSE IF h[n].data.kind = "Text" THEN <<Event("write_text", n)>>
    ELSE IF h[n].data.kind = "Comment" THEN <<Event("write_comment", n)>>
    ELSE <<Event("write_doctype", n)>>

EventsOfAll(h, s) ==
    IF s = <<>> THEN <<>> ELSE EventsOf(h, s[1]) \o EventsOfAll(h, Tail(s))

\* C30: serializing a Document node, with the scope IncludeNode as well as
\* with the scope ChildrenOnly, returns and has written exactly the events
\* of the Document's children in their order, and no event for the Document.
C30_DocumentSerializesChildren ==
    out.what = "serialize" /\ nodes[out.result.node].data.kind = "Document" =>
        /\ out.result.returned
        /\ out.result.events = EventsOfAll(nodes, nodes[out.result.node].children)


(***************************************************************************)
(* Claims about the equality of Elements                                   *)
(***************************************************************************)

\* C29: two Elements compare equal exactly when their names, their template
\* flags and their mathml integration point flags are the same and each
\* (QName, value) pair is an attribute of one as often as of the other; and
\* when a == b then b == a.
C29_ElementEquality ==
    out.what = "eq" =>
        /\ out.result.equal
              <=> /\ out.result.a.name = out.result.b.name
                  /\ out.result.a.template = out.result.b.template
                  /\ out.result.a.mathml_annotation_xml_integration_point
                         = out.result.b.mathml_annotation_xml_integration_point
                  /\ \A x \in EqAttrPool :
                        Count(out.result.a.attrs, x) = Count(out.result.b.attrs, x)
        /\ out.result.equal => out.result.converse


(***************************************************************************)
(* Claims about mutexes, threads and the drivers                           *)
(***************************************************************************)

\* C31: while the serializer calls a method of the sink (start_elem,
\* end_elem, write_text, write_comment, write_doctype,
\* write_processing_instruction), the calling thread holds no mutex of any
\* node, be it of the data, of the children or of the parent.
C31_NoLockAcrossCallbacks ==
    pc # <<>> /\ pc[1].at = "callback" => HeldBy(1) = {}


\* C32: the quirks mode byte 0 is decoded to Quirks, 1 to LimitedQuirks and
\* 2 to NoQuirks, and every other byte is rejected: no mode is answered for
\* it.
C32_QuirksModeByte ==
    out.what \in {"bridge::builder", "core::arcdom", "tools"} =>
        out.result.mode =
            CASE out.result.value = 0 -> Some("Quirks")
              [] out.result.value = 1 -> Some("LimitedQuirks")
              [] out.result.value = 2 -> Some("NoQuirks")
              [] OTHER -> NoneOption

\* the tree of the input <a href="u">x</a>: the document holds one Element,
\* named a, with the attribute href="u" and the Text x as its only child
InputAnchor ==
    /\ Len(nodes) = 3
    /\ nodes[1].children = <<2>>
    /\ nodes[2].data = ElementNamed("a", << <<"href", "u">> >>)
    /\ nodes[2].children = <<3>>
    /\ nodes[3].data = TextData("x")

C34_RootKeepsNoParentAndNoSibling ==
    pre => /\ Get(vec, IndexDefault).parent = None
           /\ Get(vec, IndexDefault).prev_sibling = None
           /\ Get(vec, IndexDefault).next_sibling = None

\* C35: the streaming driver is single-shot: after it has been finalized
\* once, a second finalize call fails with StateExhausted and produces no
\* second tree (the tree and the result of the first call stay as they are).
C35_DriverIsSingleShot ==
    [][driver.state = "finished" /\ driver'.calls = driver.calls + 1
          => /\ driver'.last = "StateExhausted"
             /\ driver'.trees = 1
             /\ driver'.state = "finished"
             /\ out' = out
             /\ tree' = tree]_vars

\* a driver that was fed a document with an Element was finalized twice: the
\* first call gave the tree, the second one failed
C35_SecondFinalizeWitness ==
    /\ driver.calls = 2
    /\ driver.trees = 1
    /\ driver.last = "StateExhausted"
    /\ out.what = "finalize"
    /\ len(out.result.tree) > 1

\* C36: PyElementDataAttributes allows at most one iteration at a time:
\* __iter__ raises RuntimeError whenever an iteration started by an earlier
\* __iter__ has not yet ended (by __next__ raising StopIteration or the
\* size-changed RuntimeError), and succeeds whenever no iteration is in
\* progress.
C36_OneIterationAtATime ==
    read.what = "__iter__" =>
        (read.result.raised = "RuntimeError" <=> read.result.in_progress)

\* C37: no tree-sink callback of TreeBuilder or ArcDom blocks on a mutex
\* that the calling thread already holds: append_before_sibling with text
\* and a sibling at index > 0, append_before_sibling with a node whose
\* parent is sibling's parent, and remove_from_parent on an attached node
\* all return.
C37_SinkCallbacksReturn ==
    [][/\ sink \in {"TreeBuilder", "ArcDom"}
       /\ \/ /\ slast'.op = "append_before_sibling_text"
             /\ position(nodes, nodes[slast'.sibling].parent, slast'.sibling) - 1 > 0
          \/ /\ slast'.op = "append_before_sibling_node"
             /\ nodes[slast'.node].parent = nodes[slast'.sibling].parent
          \/ /\ slast'.op = "remove_from_parent"
             /\ nodes[slast'.node].parent # None
       => slast'.returned]_vars

\* the mutex that the unlinking thread waits for, and the one that the
\* thread of the Children waits for (the debug_assert of Children::remove
\* panics instead of waiting)
UnlinkWaitsFor == Mutex("children", pc[1].parent)
ChildrenWaitsFor == Mutex("parent", pc[2].child)

\* each of the two threads waits for a mutex that the other one holds
CircularWait ==
    /\ pc # <<>>
    /\ pc[1].at = "children"
    /\ held[UnlinkWaitsFor] = 2
    /\ pc[2].at = "parent"
    /\ held[ChildrenWaitsFor] = 1
    /\ ~(pc[2].op = "remove" /\ pc[2].build = "debug")

\* C38: concurrent calls of child.unlink() and
\* parent.children().append/insert/remove(child) from two threads always
\* both complete: the child's parent mutex and the parent's children mutex
\* are taken in one order, so no circular wait between them is reachable
\* (and no thread panics).
C38_UnlinkAndChildrenBothComplete ==
    /\ ~CircularWait
    /\ pc # <<>> => pc[1].at # "panicked" /\ pc[2].at # "panicked"

\* the mutex of the TreeDom that thread t is about to lock, or None
DomWaitsFor(t) ==
    IF pc[t].at = "namespaces" THEN "namespaces"
    ELSE IF pc[t].at \in {"call", "value"} THEN "tree"
    ELSE IF pc[t].at = "val" /\ LocksNamespaces(t) THEN "namespaces"
    ELSE "none"

\* a thread waits for a mutex it holds itself, or each of the two threads
\* waits for a mutex that the other one holds
DomCircularWait ==
    \/ \E t \in DOMAIN pc :
          DomWaitsFor(t) # "none" /\ held[DomWaitsFor(t)] = t
    \/ /\ DomWaitsFor(1) # "none"
       /\ DomWaitsFor(2) # "none"
       /\ held[DomWaitsFor(1)] = 2
       /\ held[DomWaitsFor(2)] = 1

\* C39: TreeDom never waits circularly on its two mutexes: the arena mutex
\* and the namespaces mutex are taken in one order by append and detach and
\* by callers that hold the namespaces() guard while they use node accessors
\* or mutators, so every interleaving, of one thread or of two, completes.
C39_TreeDomNeverWaitsCircularly ==
    pc # <<>> /\ DOMAIN held = {"tree", "namespaces"} => ~DomCircularWait

\* C40: Index::new(n).into_usize() = n for every n, so the ID returned by
\* orphan addresses, through get, exactly the item that call pushed, and
\* root() addresses item 0 of the arena vector.
C40_IndexRoundTrip ==
    /\ out.what = "into_usize" =>
          ~out.result.panicked /\ out.result.value = read.result
    /\ out.what = "orphan" => out.result.got = out.result.pushed
    /\ out.what = "root" => out.result.got = 0

====
